---- MODULE Spec2Model ----
(***************************************************************************)
(* Camera navigation core of SAW: the egocentric orbit controller          *)
(* (BryceCamera), the exocentric controller (ExocentricCamera), the one    *)
(* THREE.PerspectiveCamera they share, and the mode switch of main();      *)
(* the body-locked dish menu (DishMenu3D); the event bus (EventBus); the   *)
(* resize callbacks of the browser shell (WebShell); and the create panel  *)
(* of the chrome (initCreatePanel).                                        *)
(*                                                                         *)
(* Spec is the running program: main() with both controllers on one        *)
(* viewport, and SpecFrame is the same with a dish menu shown and hidden   *)
(* by the chrome.  SpecExo is ExocentricCamera, SpecMenu is DishMenu3D and *)
(* SpecBus is EventBus (SpecBusShared: one event, several registrants) and *)
(* SpecShell is WebShell, each with its public methods called by an        *)
(* arbitrary owner.  SpecPanel is the create panel under the user's        *)
(* clicks.                                                                 *)
(*                                                                         *)
(* Numbers are fixed point: angles in milliradians, lengths in             *)
(* thousandths of a world unit, unit vectors scaled by Scale.  Pointer     *)
(* coordinates are whole pixels as in the DOM.                             *)
(*                                                                         *)
(* One action is one DOM event.  The listeners of an event run in the      *)
(* order they were registered: BryceCamera is constructed before           *)
(* ExocentricCamera, so its handler runs first on every viewport event.    *)
(***************************************************************************)
EXTENDS Integers, Sequences, FiniteSets, TLC

VARIABLES ego, exo, cam, isExoMode, last, nEvents, menu, bus, shell, panel

vars == <<ego, exo, cam, isExoMode, last, nEvents, menu, bus, shell, panel>>

(***************************************************************************)
(* Bounds of the exploration.                                              *)
(***************************************************************************)
\* number of DOM events in one explored run
MaxEvents == 4

\* pointer positions (clientX, clientY) an event may carry
Points == {<<0, 0>>, <<100, 0>>, <<0, 300>>}

\* mouse buttons: 0 left, 1 middle, 2 right
Buttons == {0, 1, 2}

\* WheelEvent.deltaY values: one notch towards the user, a large fling away
WheelDeltas == {-100, 9000}

Views == {"top", "front", "side", "perspective"}

NavActions == {"zoom-in", "zoom-out", "reset"}

\* keydown events: <<KeyboardEvent.key, document.activeElement.tagName>>
KeyPresses == {<<"e", "BODY">>, <<"E", "BODY">>, <<"e", "INPUT">>, <<"q", "BODY">>}

(***************************************************************************)
(* Fixed-point arithmetic: Math.PI, Math.sin, Math.cos, Math.atan2,        *)
(* Math.max, Math.min.                                                     *)
(***************************************************************************)
Scale == 1000

PI == 3142

Max(a, b) == IF a >= b THEN a ELSE b

Min(a, b) == IF a <= b THEN a ELSE b

Abs(a) == IF a < 0 THEN -a ELSE a

\* rounding division, symmetric around zero
RDiv(a, b) == IF a >= 0 THEN (2 * a + b) \div (2 * b) ELSE -((2 * (-a) + b) \div (2 * b))

\* precision of the intermediate terms of the sine polynomial
Fine == 10000

\* sine of x for 0 <= x <= PI/2, Taylor polynomial of degree 9 in Horner form
\* in y = x * x: x (1 - y/6 (1 - y/20 (1 - y/42 (1 - y/72))))
SinTerm(y, t, k) == Fine - RDiv(RDiv(y * t, Fine), k)

SinPoly(x, y) ==
  RDiv(x * SinTerm(y, SinTerm(y, SinTerm(y, SinTerm(y, Fine, 72), 42), 20), 6), Fine)

SinQ(x) == SinPoly(x, RDiv(x * x, (Scale * Scale) \div Fine))

\* the angle of the first quadrant with the same sine, up to sign, as r in [0, 2 PI)
Fold(r) ==
  IF r <= PI \div 2 THEN r
  ELSE IF r <= PI THEN PI - r
  ELSE IF r <= PI + PI \div 2 THEN r - PI
  ELSE 2 * PI - r

SinTurn(r) == IF r <= PI THEN SinQ(Fold(r)) ELSE -SinQ(Fold(r))

Sin(a) == SinTurn(a % (2 * PI))

Cos(a) == SinTurn((a + PI \div 2) % (2 * PI))

\* smallest t in lo..hi with Sin(t) * az >= Cos(t) * ax, by bisection;
\* the argument is <<ax, az, lo, hi>>
AtanSearch[q \in Nat \X Nat \X Nat \X Nat] ==
  IF q[3] >= q[4] THEN q[3]
  ELSE IF Sin((q[3] + q[4]) \div 2) * q[2] >= Cos((q[3] + q[4]) \div 2) * q[1]
       THEN AtanSearch[<<q[1], q[2], q[3], (q[3] + q[4]) \div 2>>]
       ELSE AtanSearch[<<q[1], q[2], (q[3] + q[4]) \div 2 + 1, q[4]>>]

\* the angle in (-PI, PI] of the point (x, y), given the angle t of (|x|, |y|)
AtanQuadrant(y, x, t) ==
  IF x = 0 /\ y = 0 THEN 0
  ELSE IF x >= 0 THEN (IF y >= 0 THEN t ELSE -t)
  ELSE (IF y >= 0 THEN PI - t ELSE t - PI)

\* Math.atan2(y, x)
Atan2(y, x) == AtanQuadrant(y, x, AtanSearch[<<Abs(y), Abs(x), 0, PI \div 2>>])

(***************************************************************************)
(* THREE.Vector3 as a triple.                                              *)
(***************************************************************************)
Vec(x, y, z) == <<x, y, z>>

VAdd(u, v) == <<u[1] + v[1], u[2] + v[2], u[3] + v[3]>>

\* v * (k / Scale)
VScaled(v, k) == <<RDiv(v[1] * k, Scale), RDiv(v[2] * k, Scale), RDiv(v[3] * k, Scale)>>

VNeg(v) == <<-v[1], -v[2], -v[3]>>

(***************************************************************************)
(* Pose math.                                                              *)
(***************************************************************************)
\* (r sp ct, r cp, r sp st) for the sines and cosines of phi and theta
Spherical(radius, sp, cp, st, ct) ==
  Vec(RDiv(RDiv(radius * sp, Scale) * ct, Scale),
      RDiv(radius * cp, Scale),
      RDiv(RDiv(radius * sp, Scale) * st, Scale))

\* x = r sin(phi) cos(theta), y = r cos(phi), z = r sin(phi) sin(theta)
toCartesian(theta, phi, radius) ==
  Spherical(radius, Sin(phi), Cos(phi), Sin(theta), Cos(theta))

clamp(v, lo, hi) == Max(lo, Min(hi, v))

(***************************************************************************)
(* Settings of the two controllers (private fields).                       *)
(***************************************************************************)
\* BryceCamera.orbitSpeed = 0.005 rad per pixel
ego_orbitSpeed == 5

\* BryceCamera.panSpeed = 0.02, in hundredths
ego_panSpeed == 2

\* BryceCamera.dollySpeed = 0.1 world units per unit of deltaY
ego_dollySpeed == 100

ego_minRadius == 1000

ego_maxRadius == 500000

\* BryceCamera.minPhi = 0.1
ego_minPhi == 100

\* BryceCamera.maxPhi = Math.PI - 0.1
ego_maxPhi == PI - 100

\* dolly step of the zoom-in / zoom-out buttons: dolly(-2), dolly(2)
ZoomStep == 2000

\* ExocentricCamera.orbitSpeed = 0.005
exo_orbitSpeed == 5

\* ExocentricCamera: deltaY * dollySpeed * 0.01 = 0.001 world units per unit of deltaY
exo_dollySpeed == 1

exo_minRadius == 1000

exo_maxRadius == 10000

\* ExocentricCamera.minPhi = 0.2
exo_minPhi == 200

\* ExocentricCamera.maxPhi = Math.PI * 0.8
exo_maxPhi == (PI * 8) \div 10

\* the eye-height offset of the exocentric orbit centre
exo_eyeHeight == 1000

(***************************************************************************)
(* The shared THREE.PerspectiveCamera.                                     *)
(*   position : camera.position                                            *)
(*   q        : camera.quaternion, kept as the spherical angles (th, ph)   *)
(*              of the direction from the look-at point to the camera      *)
(*   mq       : the rotation held by camera.matrix, in the same form;      *)
(*              camera.matrix is recomposed from the quaternion only by    *)
(*              updateMatrix (at the start of lookAt, in                   *)
(*              getWorldDirection and when a frame is rendered)            *)
(***************************************************************************)
Angles(th, ph) == [th |-> th, ph |-> ph]

\* the camera's local axes for a rotation given as angles: Matrix4.lookAt
BasisZ(a) == toCartesian(a.th, a.ph, Scale)

BasisRight(a) == Vec(Sin(a.th), 0, -Cos(a.th))

BasisUp(a) ==
  Vec(-RDiv(Cos(a.ph) * Cos(a.th), Scale), Sin(a.ph), -RDiv(Cos(a.ph) * Sin(a.th), Scale))

\* Object3D.lookAt: refresh the matrix from the old quaternion, then turn
lookAt(c, th, ph) == [c EXCEPT !.mq = c.q, !.q = Angles(th, ph)]

\* Object3D.updateMatrixWorld as called by WebGLRenderer.render
updateMatrixWorld(c) == [c EXCEPT !.mq = c.q]

\* Object3D.getWorldDirection: the negated z axis of the refreshed matrix
getWorldDirection(c) == VNeg(BasisZ(c.q))

\* polar angle of the view from (10, 10, 10) to the origin: acos(1 / sqrt 3)
viewportPolar == 955

\* SpatialViewport constructor: position.set(10, 10, 10); lookAt(0, 0, 0)
viewportCamera ==
  lookAt([position |-> Vec(10000, 10000, 10000),
          q |-> Angles(PI \div 2, PI \div 2),
          mq |-> Angles(PI \div 2, PI \div 2)],
         PI \div 4, viewportPolar)

(***************************************************************************)
(* BryceCamera (egocentric controller).  Every operation is a function     *)
(* from the controller e and the camera c to the pair after the call.      *)
(***************************************************************************)
Pair(e, c) == [e |-> e, c |-> c]

defaultState ==
  [theta |-> PI \div 4, phi |-> PI \div 4, radius |-> 17000, target |-> Vec(0, 0, 0)]

ego_updateCamera(e, c) ==
  lookAt([c EXCEPT !.position =
              VAdd(e.target, toCartesian(e.theta, e.phi, e.radius))],
         e.theta, e.phi)

\* the tail of every mutating method: this.updateCamera()
ego_thenUpdate(e, c) == Pair(e, ego_updateCamera(e, c))

orbit(e, c, dx, dy) ==
  ego_thenUpdate(
    [e EXCEPT !.theta = e.theta - dx * ego_orbitSpeed,
              !.phi = clamp(e.phi - dy * ego_orbitSpeed, ego_minPhi, ego_maxPhi)],
    c)

\* d * scale, scale = radius * panSpeed * 0.01
panByScale(e, d) == RDiv(d * e.radius * ego_panSpeed, 100 * 100)

\* offset = right * (-dx * scale) + up * (dy * scale), right and up from camera.matrix
panOffset(e, c, dx, dy) ==
  VAdd(VScaled(BasisRight(c.mq), panByScale(e, -dx)),
       VScaled(BasisUp(c.mq), panByScale(e, dy)))

\* pan that publishes the pose of the state before the call
pan_stalePose(e, c, dx, dy) ==
  Pair([e EXCEPT !.target = VAdd(e.target, panOffset(e, c, dx, dy))],
       ego_updateCamera(e, c))

pan(e, c, dx, dy) ==
  ego_thenUpdate([e EXCEPT !.target = VAdd(e.target, panOffset(e, c, dx, dy))], c)

\* dolly without the upper clamp
dolly_noUpperClamp(e, c, delta) ==
  ego_thenUpdate([e EXCEPT !.radius = Max(ego_minRadius, e.radius + delta)], c)

dolly(e, c, delta) ==
  ego_thenUpdate(
    [e EXCEPT !.radius = clamp(e.radius + delta, ego_minRadius, ego_maxRadius)], c)

viewTheta(view) ==
  CASE view = "top" -> 0
    [] view = "front" -> 0
    [] view = "side" -> PI \div 2
    [] view = "perspective" -> PI \div 4

\* presets with the top view exactly at the pole
viewPhi_zeroTop(view) ==
  CASE view = "top" -> 0
    [] view = "front" -> PI \div 2
    [] view = "side" -> PI \div 2
    [] view = "perspective" -> PI \div 4

viewPhi(view) ==
  CASE view = "top" -> 10
    [] view = "front" -> PI \div 2
    [] view = "side" -> PI \div 2
    [] view = "perspective" -> PI \div 4

\* jumpToView that also recentres the target
jumpToView_recentres(e, c, view) ==
  ego_thenUpdate(
    IF view \in Views
    THEN [e EXCEPT !.theta = viewTheta(view), !.phi = viewPhi(view),
                   !.target = defaultState.target]
    ELSE e,
    c)

jumpToView(e, c, view) ==
  ego_thenUpdate(
    IF view \in Views
    THEN [e EXCEPT !.theta = viewTheta(view), !.phi = viewPhi(view)]
    ELSE e,
    c)

\* reset that keeps the panned target
reset_keepsTarget(e, c) ==
  ego_thenUpdate(
    [e EXCEPT !.theta = defaultState.theta, !.phi = defaultState.phi,
              !.radius = defaultState.radius],
    c)

reset(e, c) ==
  ego_thenUpdate(
    [e EXCEPT !.theta = defaultState.theta, !.phi = defaultState.phi,
              !.radius = defaultState.radius, !.target = defaultState.target],
    c)

\* the last statement of onMouseDown and onMouseMove: this.lastMouse = { x, y }
ego_thenLastMouse(r, p) == Pair([r.e EXCEPT !.lastMouse = p], r.c)

ego_onMouseDown(e, c, b, p) ==
  ego_thenLastMouse(
    Pair(IF b = 0 THEN [e EXCEPT !.isDragging = TRUE]
         ELSE IF b = 2 \/ b = 1 THEN [e EXCEPT !.isPanning = TRUE]
         ELSE e,
         c),
    p)

ego_onMouseMove(e, c, p) ==
  ego_thenLastMouse(
    IF e.isDragging THEN orbit(e, c, p[1] - e.lastMouse[1], p[2] - e.lastMouse[2])
    ELSE IF e.isPanning THEN pan(e, c, p[1] - e.lastMouse[1], p[2] - e.lastMouse[2])
    ELSE Pair(e, c),
    p)

\* onMouseUp that ends an orbit drag but not a pan drag
ego_onMouseUp_keepsPanning(e, c) == Pair([e EXCEPT !.isDragging = FALSE], c)

ego_onMouseUp(e, c) == Pair([e EXCEPT !.isDragging = FALSE, !.isPanning = FALSE], c)

ego_onWheel(e, c, deltaY) == dolly(e, c, deltaY * ego_dollySpeed)

\* the mousedown listener of #nav-ball
navBallDown(e, c, p) == Pair([e EXCEPT !.isDragging = TRUE, !.lastMouse = p], c)

\* the click listener of the .nav-btn buttons
navBtnClick(e, c, action) ==
  IF action = "zoom-in" THEN dolly(e, c, -ZoomStep)
  ELSE IF action = "zoom-out" THEN dolly(e, c, ZoomStep)
  ELSE IF action = "reset" THEN reset(e, c)
  ELSE Pair(e, c)

(***************************************************************************)
(* ExocentricCamera (exocentric controller).                               *)
(***************************************************************************)
exo_updateCamera(x, c) ==
  IF ~x.isActive THEN c
  ELSE lookAt([c EXCEPT !.position =
                   VAdd(VAdd(x.userPosition, toCartesian(x.theta, x.phi, x.radius)),
                        Vec(0, exo_eyeHeight, 0))],
              x.theta, x.phi)

\* the tail of the mutating methods: this.updateCamera()
exo_thenUpdate(x, c) == Pair(x, exo_updateCamera(x, c))

exo_onMouseDown(x, c, b, p) ==
  IF ~x.isActive THEN Pair(x, c)
  ELSE IF b = 0 THEN Pair([x EXCEPT !.isDragging = TRUE, !.lastMouse = p], c)
  ELSE Pair(x, c)

\* onMouseMove without the clamp of phi
exo_onMouseMove_noClamp(x, c, p) ==
  IF ~x.isActive \/ ~x.isDragging THEN Pair(x, c)
  ELSE exo_thenUpdate(
         [x EXCEPT !.theta = x.theta - (p[1] - x.lastMouse[1]) * exo_orbitSpeed,
                   !.phi = x.phi - (p[2] - x.lastMouse[2]) * exo_orbitSpeed,
                   !.lastMouse = p],
         c)

\* onMouseMove that tests the drag flag only
exo_onMouseMove_whileInactive(x, c, p) ==
  IF ~x.isDragging THEN Pair(x, c)
  ELSE exo_thenUpdate(
         [x EXCEPT !.theta = x.theta - (p[1] - x.lastMouse[1]) * exo_orbitSpeed,
                   !.phi = clamp(x.phi - (p[2] - x.lastMouse[2]) * exo_orbitSpeed,
                                 exo_minPhi, exo_maxPhi),
                   !.lastMouse = p],
         c)

exo_onMouseMove(x, c, p) ==
  IF ~x.isActive \/ ~x.isDragging THEN Pair(x, c)
  ELSE exo_thenUpdate(
         [x EXCEPT !.theta = x.theta - (p[1] - x.lastMouse[1]) * exo_orbitSpeed,
                   !.phi = clamp(x.phi - (p[2] - x.lastMouse[2]) * exo_orbitSpeed,
                                 exo_minPhi, exo_maxPhi),
                   !.lastMouse = p],
         c)

exo_onMouseUp(x, c) == Pair([x EXCEPT !.isDragging = FALSE], c)

exo_onWheel(x, c, deltaY) ==
  IF ~x.isActive THEN Pair(x, c)
  ELSE exo_thenUpdate(
         [x EXCEPT !.radius = clamp(x.radius + deltaY * exo_dollySpeed,
                                    exo_minRadius, exo_maxRadius)],
         c)

\* activate that keeps the phi and radius of the earlier session
activateAt_keepsOrbit(x, c, currentPosition, currentDirection, angle) ==
  exo_thenUpdate(
    [x EXCEPT !.userPosition = currentPosition,
              !.userDirection = currentDirection,
              !.ghostPosition = Vec(currentPosition[1], 0, currentPosition[3]),
              !.ghostRotationY = angle,
              !.ghostVisible = TRUE,
              !.isActive = TRUE,
              !.theta = angle + PI],
    c)

\* the body of activate once angle = Math.atan2(direction.x, direction.z) is known
activateAt(x, c, currentPosition, currentDirection, angle) ==
  exo_thenUpdate(
    [x EXCEPT !.userPosition = currentPosition,
              !.userDirection = currentDirection,
              !.ghostPosition = Vec(currentPosition[1], 0, currentPosition[3]),
              !.ghostRotationY = angle,
              !.ghostVisible = TRUE,
              !.isActive = TRUE,
              !.theta = angle + PI,
              !.phi = PI \div 3,
              !.radius = 3000],
    c)

activate(x, c, currentPosition, currentDirection) ==
  activateAt(x, c, currentPosition, currentDirection,
             Atan2(currentDirection[1], currentDirection[3]))

\* deactivate that hides the ghost but leaves the controller Active
deactivate_keepsActive(x, c) == Pair([x EXCEPT !.ghostVisible = FALSE], c)

\* deactivate that also ends a drag
deactivate_endsDrag(x, c) ==
  Pair([x EXCEPT !.ghostVisible = FALSE, !.isActive = FALSE, !.isDragging = FALSE], c)

deactivate(x, c) == Pair([x EXCEPT !.ghostVisible = FALSE, !.isActive = FALSE], c)

\* getUserPosition that returns the ghost's ground position
getUserPosition_ghost(x) == x.ghostPosition

getUserPosition(x) == x.userPosition

getUserDirection(x) == x.userDirection

(***************************************************************************)
(* main(): the mode flag and toggleExoMode.  The result carries both       *)
(* controllers, the camera and the flag.                                   *)
(***************************************************************************)
Modes(e, r, mode) == [e |-> e, x |-> r.e, c |-> r.c, mode |-> mode]

toggleExoMode(e, x, c, mode) ==
  IF ~mode
  THEN Modes(e, activate(x, updateMatrixWorld(c), c.position, getWorldDirection(c)), TRUE)
  ELSE Modes(e, deactivate(x, c), FALSE)

\* the keydown listener: E toggles unless an input element has the focus
onKeyDown(e, x, c, mode, key, focusTag) ==
  IF (key = "e" \/ key = "E") /\ focusTag # "INPUT"
  THEN toggleExoMode(e, x, c, mode)
  ELSE [e |-> e, x |-> x, c |-> c, mode |-> mode]

(***************************************************************************)
(* DishMenu3D (body-locked dish menu).  The widget m is a record of the    *)
(* private fields; every object created by a build (item mesh, label       *)
(* sprite, category toggle, category label) is known by a handle: its      *)
(* kind, its slot in the build, and gen = 0 while it belongs to the        *)
(* current build, gen = 1 once a rebuild has destroyed it.                 *)
(***************************************************************************)
\* the value of a number that is not a number
NaN == -1

\* item.url when the item has none
Undefined == "undefined"

Item(id, label, url) == [id |-> id, label |-> label, url |-> url]

Category(id, label, items) == [id |-> id, label |-> label, items |-> items]

\* the category lists an owner passes to setCategories; an item id is any
\* string, the empty one and the toggle's sentinel included
CategoryLists ==
  { <<>>,
    <<Category("a", "A", <<Item("a1", "A1", "u1"), Item("a2", "A2", Undefined)>>)>>,
    <<Category("a", "A", <<Item("a1", "A1", "u1"), Item("a2", "A2", Undefined)>>),
      Category("b", "B", <<Item("b1", "B1", "u3")>>),
      Category("c", "C", <<>>)>>,
    <<Category("d", "D", <<Item("", "Blank", Undefined),
                           Item("__toggle__", "Sentinel", "u4")>>),
      Category("b", "B", <<Item("b1", "B1", "u3")>>)>>,
    <<Category("s", "S", <<Item("__toggle__", "Sentinel", "u4")>>)>> }

\* the selection callbacks an owner passes to setCategories
Callbacks == {"onSelect"}

\* where the pointer ray goes: past everything, at the category toggle, or at
\* item slot k of the arc
Pointers == {<<"away", 0>>, <<"toggle", 0>>, <<"item", 1>>, <<"item", 2>>}

Handle(kind, slot) == [kind |-> kind, gen |-> 0, slot |-> slot]

\* the same objects after a rebuild has destroyed them
Aged(hs) ==
  [i \in DOMAIN hs |-> [hs[i] EXCEPT !.gen = IF hs[i].kind = "base" THEN 0 ELSE 1]]

\* the handles of a sequence of meshes or sprites
Handles(objs) == {objs[i].h : i \in DOMAIN objs}

\* material.emissiveIntensity in tenths
ItemGlow == 1

ItemHoverGlow == 5

ToggleGlow == 2

ToggleHoverGlow == 6

\* a returned value is a sequence: empty for null or for no value, else the
\* one string returned; the booleans are returned by name
True == <<"true">>

False == <<"false">>

\* the result of a call that returns a value, with the selection callbacks
\* it made; raised is TRUE when the call ended in an exception
Outcome(m, ret, calls, raised) ==
  [m |-> m, ret |-> ret, calls |-> calls, raised |-> raised]

\* the dish base is the one child that every build keeps
dishBase == [kind |-> "base", gen |-> 0, slot |-> 0]

\* clearing that disposes the labels but leaves them in the group
clearItems_keepsLabels(m) ==
  [m EXCEPT
     !.children =
        Aged(SelectSeq(m.children,
               LAMBDA h : h \notin (Handles(m.items) \cup
                                    Handles(m.centerToggle) \cup Handles(m.centerLabel)))),
     !.hoveredItem = Aged(m.hoveredItem),
     !.centerToggle = <<>>,
     !.centerLabel = <<>>,
     !.items = <<>>,
     !.labels = <<>>]

\* rebuildItems, first half: remove and dispose what the last build made
clearItems(m) ==
  [m EXCEPT
     !.children =
        Aged(SelectSeq(m.children,
               LAMBDA h : h \notin (Handles(m.items) \cup Handles(m.labels) \cup
                                    Handles(m.centerToggle) \cup Handles(m.centerLabel)))),
     !.hoveredItem = Aged(m.hoveredItem),
     !.centerToggle = <<>>,
     !.centerLabel = <<>>,
     !.items = <<>>,
     !.labels = <<>>]

\* the mesh and the label of menu item i
itemMesh(menuItem, i) ==
  [h |-> Handle("item", i), menuItemId |-> menuItem.id, url |-> menuItem.url,
   glow |-> ItemGlow]

itemLabel(menuItem, i) ==
  [h |-> Handle("label", i), text |-> menuItem.label, visible |-> FALSE]

\* the children a build adds, in the order of the group.add calls
builtChildren(menuItems, withToggle) ==
  (IF withToggle THEN <<Handle("toggle", 0), Handle("centerLabel", 0)>> ELSE <<>>) \o
  [k \in 1..(2 * Len(menuItems)) |->
     IF k % 2 = 1 THEN Handle("item", (k + 1) \div 2) ELSE Handle("label", k \div 2)]

\* rebuildItems, second half: the toggle when there are several categories,
\* then one mesh and one hidden label per item of the current category
buildItems(m, currentCategory, withToggle) ==
  [m EXCEPT
     !.centerToggle =
        IF withToggle THEN <<[h |-> Handle("toggle", 0), glow |-> ToggleGlow]>> ELSE <<>>,
     !.centerLabel =
        IF withToggle
        THEN <<[h |-> Handle("centerLabel", 0), text |-> currentCategory.label,
                visible |-> TRUE]>>
        ELSE <<>>,
     !.items = [i \in DOMAIN currentCategory.items |-> itemMesh(currentCategory.items[i], i)],
     !.labels = [i \in DOMAIN currentCategory.items |-> itemLabel(currentCategory.items[i], i)],
     !.children = m.children \o builtChildren(currentCategory.items, withToggle)]

\* rebuildItems without the early return on an empty category list
rebuildItems_noEmptyGuard(m) ==
  IF m.currentCategoryIndex \notin 0..(Len(m.categories) - 1)
  THEN Outcome(clearItems(m), <<>>, <<>>, TRUE)
  ELSE Outcome(buildItems(clearItems(m), m.categories[m.currentCategoryIndex + 1],
                          Len(m.categories) > 1),
               <<>>, <<>>, FALSE)

\* categories[currentCategoryIndex] is undefined outside the array, and
\* reading its items then raises
rebuildItems(m) ==
  IF Len(m.categories) = 0 THEN Outcome(clearItems(m), <<>>, <<>>, FALSE)
  ELSE IF m.currentCategoryIndex \notin 0..(Len(m.categories) - 1)
  THEN Outcome(clearItems(m), <<>>, <<>>, TRUE)
  ELSE Outcome(buildItems(clearItems(m), m.categories[m.currentCategoryIndex + 1],
                          Len(m.categories) > 1),
               <<>>, <<>>, FALSE)

setCategories(m, categories, onSelect) ==
  rebuildItems([m EXCEPT !.categories = categories,
                         !.onSelect = <<onSelect>>,
                         !.currentCategoryIndex = 0])

\* advancing without the wrap
nextIndex_noWrap(i, n) == i + 1

\* x % 0 is NaN
nextIndex(i, n) == IF n = 0 THEN NaN ELSE (i + 1) % n

\* nextCategory that advances the index but does not rebuild
nextCategory_noRebuild(m) ==
  Outcome([m EXCEPT !.currentCategoryIndex =
                       nextIndex(m.currentCategoryIndex, Len(m.categories))],
          <<>>, <<>>, FALSE)

nextCategory(m) ==
  rebuildItems([m EXCEPT !.currentCategoryIndex =
                            nextIndex(m.currentCategoryIndex, Len(m.categories))])

show(m) == [m EXCEPT !.isVisible = TRUE, !.groupVisible = TRUE]

hide(m) == [m EXCEPT !.isVisible = FALSE, !.groupVisible = FALSE]

menu_toggle(m) == IF m.isVisible THEN hide(m) ELSE show(m)

\* -offsetZ: the dish sits 1.5 in front of the camera
menu_forward == 1500

\* offsetY: and 0.8 below it
menu_offsetY == -800

\* dishPos = cameraPos + cameraDir * -offsetZ + (0, offsetY, 0)
dishPosition(c) ==
  VAdd(VAdd(c.position, VScaled(getWorldDirection(c), menu_forward)),
       Vec(0, menu_offsetY, 0))

\* the dish is turned towards the camera position at its own height
menu_update(m, c) ==
  IF ~m.isVisible THEN m
  ELSE [m EXCEPT !.position = dishPosition(c),
                 !.lookTarget = Vec(c.position[1], dishPosition(c)[2], c.position[3])]

\* the first object on the pointer ray among the items and the toggle
nearestHit(m, p) ==
  IF p[1] = "toggle" /\ m.centerToggle # <<>> THEN <<m.centerToggle[1]>>
  ELSE IF p[1] = "item" /\ p[2] \in DOMAIN m.items THEN <<m.items[p[2]]>>
  ELSE <<>>

\* the glow of every object of objs, with that of the object h set to glow
withGlow(objs, h, glow) ==
  [i \in DOMAIN objs |-> IF objs[i].h = h THEN [objs[i] EXCEPT !.glow = glow] ELSE objs[i]]

\* labels[items.indexOf(h)].visible = visible, when there is such a label
withLabel(m, h, visible) ==
  [i \in DOMAIN m.labels |->
     IF i \in DOMAIN m.items /\ m.items[i].h = h
     THEN [m.labels[i] EXCEPT !.visible = visible]
     ELSE m.labels[i]]

\* resetting the hover without hiding its label
resetHoverOf_keepsLabel(m, h) ==
  [m EXCEPT !.items = withGlow(m.items, h, ItemGlow),
            !.centerToggle = withGlow(m.centerToggle, h, ToggleGlow),
            !.hoveredItem = <<>>]

\* the "reset previous hover" block for the hovered object h
resetHoverOf(m, h) ==
  [m EXCEPT !.items = withGlow(m.items, h, ItemGlow),
            !.centerToggle = withGlow(m.centerToggle, h, ToggleGlow),
            !.labels = withLabel(m, h, FALSE),
            !.hoveredItem = <<>>]

resetHover(m) == IF m.hoveredItem = <<>> THEN m ELSE resetHoverOf(m, m.hoveredItem[1])

\* the hover of the object hit: the toggle, or an item whose id is truthy
hoverHit(m, hit) ==
  IF hit = <<>> THEN Outcome(m, <<>>, <<>>, FALSE)
  ELSE IF hit[1].h.kind = "toggle"
  THEN Outcome([m EXCEPT !.hoveredItem = <<hit[1].h>>,
                         !.centerToggle = withGlow(m.centerToggle, hit[1].h, ToggleHoverGlow)],
               <<"__toggle__">>, <<>>, FALSE)
  ELSE IF hit[1].menuItemId # ""
  THEN Outcome([m EXCEPT !.hoveredItem = <<hit[1].h>>,
                         !.items = withGlow(m.items, hit[1].h, ItemHoverGlow),
                         !.labels = withLabel(m, hit[1].h, TRUE)],
               <<hit[1].menuItemId>>, <<>>, FALSE)
  ELSE Outcome(m, <<>>, <<>>, FALSE)

\* returns the id hit, '__toggle__', or null (the empty sequence)
checkInteraction(m, p) ==
  IF ~m.isVisible THEN Outcome(m, <<>>, <<>>, FALSE)
  ELSE hoverHit(resetHover(m), nearestHit(m, p))

\* nextCategory(); return true
returningTrue(r) == Outcome(r.m, True, r.calls, r.raised)

clickHit(m, hit) ==
  IF hit = <<>> THEN Outcome(m, False, <<>>, FALSE)
  ELSE IF hit[1].h.kind = "toggle" THEN returningTrue(nextCategory(m))
  ELSE IF hit[1].menuItemId # "" /\ m.onSelect # <<>>
  THEN Outcome(hide(m), True, <<<<m.onSelect[1], hit[1].menuItemId, hit[1].url>>>>, FALSE)
  ELSE Outcome(m, False, <<>>, FALSE)

\* handleClick that does not test the visibility
handleClick_whileHidden(m, p) == clickHit(m, nearestHit(m, p))

handleClick(m, p) ==
  IF ~m.isVisible THEN Outcome(m, False, <<>>, FALSE)
  ELSE clickHit(m, nearestHit(m, p))

menuInit ==
  [categories |-> <<>>, currentCategoryIndex |-> 0, onSelect |-> <<>>,
   items |-> <<>>, labels |-> <<>>, centerToggle |-> <<>>, centerLabel |-> <<>>,
   hoveredItem |-> <<>>, isVisible |-> FALSE, groupVisible |-> FALSE,
   children |-> <<dishBase>>,
   position |-> Vec(0, 0, 0), lookTarget |-> Vec(0, 0, 0)]

(***************************************************************************)
(* EventBus.  listeners is the Map of event name to Set of callbacks, a    *)
(* Set kept as the sequence of its members in insertion order, which is    *)
(* the order forEach visits them; subscriptions is the WeakMap of owner to *)
(* Subscription[], empty for an owner without entry and <<subs>> for one   *)
(* with the array subs; unsubs are the closures on() has returned, each    *)
(* the pair of the event and the callback it was made for.                 *)
(***************************************************************************)
BusEvents == {"a", "b"}

\* the callbacks an owner registers; "bad" throws when called
BusCallbacks == {"cb1", "bad"}

Throws(cb) == cb = "bad"

Payloads == {"p1", "p2"}

Owners == {"o1", "o2"}

Subscription(event, callback) == [event |-> event, callback |-> callback]

\* Object.entries of the records passed to subscribe
SubscriptionRecords ==
  { <<Subscription("a", "cb1")>>,
    <<Subscription("b", "bad")>>,
    <<Subscription("a", "bad"), Subscription("b", "cb1")>> }

busInit ==
  [listeners |-> [e \in BusEvents |-> <<>>],
   subscriptions |-> [o \in Owners |-> <<>>],
   unsubs |-> {}]

\* Set.has, Set.add and Set.delete on a Set kept in insertion order
SetHas(set, x) == \E i \in DOMAIN set : set[i] = x

\* add of an array: push without the membership test
SetAdd_push(set, x) == Append(set, x)

SetAdd(set, x) == IF SetHas(set, x) THEN set ELSE Append(set, x)

SetDelete(set, x) == SelectSeq(set, LAMBDA y : y # x)

\* listeners.get(event).add(callback), the set created when missing
bus_add(b, event, callback) ==
  [b EXCEPT !.listeners[event] = SetAdd(@, callback)]

\* on returns the closure () => this.off(event, callback)
bus_on(b, event, callback) ==
  [bus_add(b, event, callback) EXCEPT !.unsubs = @ \cup {<<event, callback>>}]

\* off that deletes the callback from the set of every event
bus_off_everyEvent(b, event, callback) ==
  [b EXCEPT !.listeners = [e \in BusEvents |-> SetDelete(@[e], callback)]]

bus_off(b, event, callback) ==
  [b EXCEPT !.listeners[event] = SetDelete(@, callback)]

\* what emit leaves behind: the calls made, in order, each <<callback, payload>>;
\* the errors written to the console; whether emit itself threw
Emitted(calls, errors, raised) == [calls |-> calls, errors |-> errors, raised |-> raised]

NothingEmitted == Emitted(<<>>, 0, FALSE)

\* the position of the first listener that throws, or one past the last
FirstThrow(set) ==
  IF \E i \in DOMAIN set : Throws(set[i])
  THEN CHOOSE i \in DOMAIN set : Throws(set[i]) /\ \A j \in 1..(i - 1) : ~Throws(set[j])
  ELSE Len(set) + 1

\* emit without the try/catch around the call: the first error ends the loop
bus_emit_noCatch(b, event, payload) ==
  Emitted([i \in 1..Min(FirstThrow(b.listeners[event]), Len(b.listeners[event])) |->
             <<b.listeners[event][i], payload>>],
          0,
          FirstThrow(b.listeners[event]) <= Len(b.listeners[event]))

\* forEach over the set, each call in its own try/catch
bus_emit(b, event, payload) ==
  Emitted([i \in DOMAIN b.listeners[event] |-> <<b.listeners[event][i], payload>>],
          Cardinality({i \in DOMAIN b.listeners[event] : Throws(b.listeners[event][i])}),
          FALSE)

\* the loop of subscribe: this.on(event, callback) for every entry
RECURSIVE bus_onEach(_, _)
bus_onEach(b, subs) ==
  IF subs = <<>> THEN b
  ELSE bus_onEach(bus_add(b, Head(subs).event, Head(subs).callback), Tail(subs))

\* this.subscriptions.set(owner, subs) replaces the owner's entry
bus_subscribe(b, owner, subs) ==
  [bus_onEach(b, subs) EXCEPT !.subscriptions[owner] = <<subs>>]

\* the loop of unsubscribe: this.off(event, callback) for every entry
RECURSIVE bus_offEach(_, _)
bus_offEach(b, subs) ==
  IF subs = <<>> THEN b
  ELSE bus_offEach(bus_off(b, Head(subs).event, Head(subs).callback), Tail(subs))

bus_unsubscribe(b, owner) ==
  IF b.subscriptions[owner] = <<>> THEN b
  ELSE [bus_offEach(b, b.subscriptions[owner][1]) EXCEPT !.subscriptions[owner] = <<>>]

bus_clear(b) == [b EXCEPT !.listeners = [e \in BusEvents |-> <<>>]]

(***************************************************************************)
(* WebShell: resizeCallbacks is the array of the callbacks registered with *)
(* onResize, metrics what getDisplayMetrics reads from the container, and  *)
(* unsubs the callbacks for which onResize has returned a closure.         *)
(***************************************************************************)
\* the longest array of resize callbacks explored
MaxCallbacks == 3

ShellCallbacks == {"r1", "r2"}

Metrics == {"m1", "m2"}

shellInit == [resizeCallbacks |-> <<>>, metrics |-> "m1", unsubs |-> {}]

\* resizeCallbacks.forEach(cb => cb(metrics)): the calls made, in order
callEach(callbacks, metrics) == [i \in DOMAIN callbacks |-> <<callbacks[i], metrics>>]

\* push, and the closure returned
shell_onResize(sh, callback) ==
  [sh EXCEPT !.resizeCallbacks = Append(@, callback), !.unsubs = @ \cup {callback}]

\* Array.indexOf: the first position of x, 0 (for -1) when there is none
IndexOf(array, x) ==
  IF \E i \in DOMAIN array : array[i] = x
  THEN CHOOSE i \in DOMAIN array : array[i] = x /\ \A j \in 1..(i - 1) : array[j] # x
  ELSE 0

\* Array.splice(idx, 1)
SpliceOne(array, idx) ==
  [i \in 1..(Len(array) - 1) |-> IF i < idx THEN array[i] ELSE array[i + 1]]

\* the closure returned by onResize(callback)
shell_unsubscribe(sh, callback) ==
  [sh EXCEPT !.resizeCallbacks =
     IF IndexOf(@, callback) >= 1 THEN SpliceOne(@, IndexOf(@, callback)) ELSE @]

(***************************************************************************)
(* The create panel of the chrome (initCreatePanel): is3DMode is the       *)
(* closure variable, dropdownOpen the class 'open' of the dropdown,        *)
(* panelDisplay the panel's style.display, activeTab the tab with class    *)
(* 'active', savedMode the localStorage item 'saw-create-mode'.            *)
(***************************************************************************)
Tabs == {"primitives", "models"}

\* the .create-item elements: data-create and data-url
CreateItems == {<<"cube", Undefined>>, <<"model", "u1">>}

\* what the free identifier isRadialMode of the item handler resolves to:
\* no declaration (a ReferenceError), or a global holding true or false
RadialGlobals == {"undeclared", "true", "false"}

panelInit ==
  [is3DMode |-> FALSE, dropdownOpen |-> FALSE, panelDisplay |-> "",
   activeTab |-> "primitives", savedMode |-> <<>>]

\* what a handler leaves behind: the panel, the window events dispatched, in
\* order, each <<name, detail>>, and whether the handler threw
Handled(pn, dispatched, raised) == [pn |-> pn, dispatched |-> dispatched, raised |-> raised]

createBtnClick(pn) ==
  IF pn.is3DMode THEN Handled(pn, <<<<"toggle-3d-create-menu", <<>>>>>>, FALSE)
  ELSE Handled([pn EXCEPT !.dropdownOpen = ~@], <<>>, FALSE)

\* the document click listener, for a click outside the dropdown
documentClick(pn) ==
  IF ~pn.is3DMode THEN Handled([pn EXCEPT !.dropdownOpen = FALSE], <<>>, FALSE)
  ELSE Handled(pn, <<>>, FALSE)

modeToggleClick(pn) ==
  IF ~pn.is3DMode
  THEN Handled([pn EXCEPT !.is3DMode = TRUE, !.savedMode = <<"3d">>, !.dropdownOpen = FALSE],
               <<<<"toggle-3d-create-menu", <<>>>>>>, FALSE)
  ELSE Handled([pn EXCEPT !.is3DMode = FALSE, !.savedMode = <<"dropdown">>,
                          !.dropdownOpen = TRUE],
               <<<<"hide-3d-create-menu", <<>>>>>>, FALSE)

tabClick(pn, tab) == Handled([pn EXCEPT !.activeTab = tab], <<>>, FALSE)

\* the click handler of a .create-item
createItemClick(pn, item, radial) ==
  IF pn.is3DMode THEN Handled(pn, <<<<"create-object", item>>>>, FALSE)
  ELSE IF radial = "undeclared" THEN Handled(pn, <<<<"create-object", item>>>>, TRUE)
  ELSE IF radial = "true"
  THEN Handled([pn EXCEPT !.panelDisplay = "none"], <<<<"create-object", item>>>>, FALSE)
  ELSE Handled([pn EXCEPT !.dropdownOpen = FALSE], <<<<"create-object", item>>>>, FALSE)

(***************************************************************************)
(* State after main() has constructed the viewport and both controllers.   *)
(***************************************************************************)
\* the last DOM event dispatched: its kind and what it carried
Event(op, btn, p, d, name) ==
  [op |-> op, btn |-> btn, p |-> p, d |-> d, name |-> name, tag |-> ""]

KeyEvent(key, focusTag) ==
  [op |-> "keydown", btn |-> 0, p |-> <<0, 0>>, d |-> 0, name |-> key, tag |-> focusTag]

egoInit ==
  [theta |-> defaultState.theta, phi |-> defaultState.phi,
   radius |-> defaultState.radius, target |-> defaultState.target,
   isDragging |-> FALSE, isPanning |-> FALSE, lastMouse |-> <<0, 0>>]

exoInit ==
  [userPosition |-> Vec(0, 0, 0), userDirection |-> Vec(0, 0, 0),
   theta |-> PI \div 4, phi |-> PI \div 3, radius |-> 3000,
   isDragging |-> FALSE, lastMouse |-> <<0, 0>>, isActive |-> FALSE,
   ghostPosition |-> Vec(0, 0, 0), ghostRotationY |-> 0, ghostVisible |-> FALSE]

Init ==
  /\ ego = egoInit
  /\ exo = exoInit
  /\ cam = ego_updateCamera(egoInit, viewportCamera)
  /\ isExoMode = FALSE
  /\ last = Event("init", 0, <<0, 0>>, 0, "")
  /\ nEvents = 0
  /\ menu = menuInit
  /\ bus = busInit
  /\ shell = shellInit
  /\ panel = panelInit

(***************************************************************************)
(* DOM events.  The viewport listeners of BryceCamera were added first,    *)
(* so on every viewport event they run before those of ExocentricCamera.   *)
(***************************************************************************)
\* the exploration stops after MaxEvents events
Budget == nEvents < MaxEvents

MouseDown(b, p) ==
  /\ Budget
  /\ \E r1 \in {ego_onMouseDown(ego, cam, b, p)} :
       \E r2 \in {exo_onMouseDown(exo, r1.c, b, p)} :
         /\ ego' = r1.e
         /\ exo' = r2.e
         /\ cam' = r2.c
  /\ last' = Event("mousedown", b, p, 0, "")
  /\ nEvents' = nEvents + 1
  /\ UNCHANGED <<menu, bus, shell, panel>>
  /\ UNCHANGED isExoMode

MouseMove(p) ==
  /\ Budget
  /\ \E r1 \in {ego_onMouseMove(ego, cam, p)} :
       \E r2 \in {exo_onMouseMove(exo, r1.c, p)} :
         /\ ego' = r1.e
         /\ exo' = r2.e
         /\ cam' = r2.c
  /\ last' = Event("mousemove", 0, p, 0, "")
  /\ nEvents' = nEvents + 1
  /\ UNCHANGED <<menu, bus, shell, panel>>
  /\ UNCHANGED isExoMode

MouseUp ==
  /\ Budget
  /\ \E r1 \in {ego_onMouseUp(ego, cam)} :
       \E r2 \in {exo_onMouseUp(exo, r1.c)} :
         /\ ego' = r1.e
         /\ exo' = r2.e
         /\ cam' = r2.c
  /\ last' = Event("mouseup", 0, <<0, 0>>, 0, "")
  /\ nEvents' = nEvents + 1
  /\ UNCHANGED <<menu, bus, shell, panel>>
  /\ UNCHANGED isExoMode

\* mouseleave is bound to onMouseUp in both controllers
MouseLeave ==
  /\ Budget
  /\ \E r1 \in {ego_onMouseUp(ego, cam)} :
       \E r2 \in {exo_onMouseUp(exo, r1.c)} :
         /\ ego' = r1.e
         /\ exo' = r2.e
         /\ cam' = r2.c
  /\ last' = Event("mouseleave", 0, <<0, 0>>, 0, "")
  /\ nEvents' = nEvents + 1
  /\ UNCHANGED <<menu, bus, shell, panel>>
  /\ UNCHANGED isExoMode

Wheel(deltaY) ==
  /\ Budget
  /\ \E r1 \in {ego_onWheel(ego, cam, deltaY)} :
       \E r2 \in {exo_onWheel(exo, r1.c, deltaY)} :
         /\ ego' = r1.e
         /\ exo' = r2.e
         /\ cam' = r2.c
  /\ last' = Event("wheel", 0, <<0, 0>>, deltaY, "")
  /\ nEvents' = nEvents + 1
  /\ UNCHANGED <<menu, bus, shell, panel>>
  /\ UNCHANGED isExoMode

\* mousedown on #nav-ball; stopPropagation keeps it from the viewport listeners
NavBallDown(p) ==
  /\ Budget
  /\ \E r1 \in {navBallDown(ego, cam, p)} :
       /\ ego' = r1.e
       /\ cam' = r1.c
  /\ last' = Event("navball", 0, p, 0, "")
  /\ nEvents' = nEvents + 1
  /\ UNCHANGED <<menu, bus, shell, panel>>
  /\ UNCHANGED <<exo, isExoMode>>

ViewBtn(view) ==
  /\ Budget
  /\ \E r1 \in {jumpToView(ego, cam, view)} :
       /\ ego' = r1.e
       /\ cam' = r1.c
  /\ last' = Event("view", 0, <<0, 0>>, 0, view)
  /\ nEvents' = nEvents + 1
  /\ UNCHANGED <<menu, bus, shell, panel>>
  /\ UNCHANGED <<exo, isExoMode>>

NavBtn(action) ==
  /\ Budget
  /\ \E r1 \in {navBtnClick(ego, cam, action)} :
       /\ ego' = r1.e
       /\ cam' = r1.c
  /\ last' = Event("nav", 0, <<0, 0>>, 0, action)
  /\ nEvents' = nEvents + 1
  /\ UNCHANGED <<menu, bus, shell, panel>>
  /\ UNCHANGED <<exo, isExoMode>>

\* click on #exo-toggle
ExoToggleClick ==
  /\ Budget
  /\ \E r \in {toggleExoMode(ego, exo, cam, isExoMode)} :
       /\ ego' = r.e
       /\ exo' = r.x
       /\ cam' = r.c
       /\ isExoMode' = r.mode
  /\ last' = Event("toggle", 0, <<0, 0>>, 0, "click")
  /\ nEvents' = nEvents + 1
  /\ UNCHANGED <<menu, bus, shell, panel>>

\* keydown on the document
KeyDown(key, focusTag) ==
  /\ Budget
  /\ \E r \in {onKeyDown(ego, exo, cam, isExoMode, key, focusTag)} :
       /\ ego' = r.e
       /\ exo' = r.x
       /\ cam' = r.c
       /\ isExoMode' = r.mode
  /\ last' = KeyEvent(key, focusTag)
  /\ nEvents' = nEvents + 1
  /\ UNCHANGED <<menu, bus, shell, panel>>

\* requestAnimationFrame callback: egoCamera.update is empty; then render
Frame ==
  /\ Budget
  /\ cam' = updateMatrixWorld(cam)
  /\ last' = Event("frame", 0, <<0, 0>>, 0, "")
  /\ nEvents' = nEvents + 1
  /\ UNCHANGED <<menu, bus, shell, panel>>
  /\ UNCHANGED <<ego, exo, isExoMode>>

Next ==
  \/ \E b \in Buttons, p \in Points : MouseDown(b, p)
  \/ \E p \in Points : MouseMove(p)
  \/ MouseUp
  \/ MouseLeave
  \/ \E d \in WheelDeltas : Wheel(d)
  \/ \E p \in Points : NavBallDown(p)
  \/ \E v \in Views : ViewBtn(v)
  \/ \E a \in NavActions : NavBtn(a)
  \/ ExoToggleClick
  \/ \E k \in KeyPresses : KeyDown(k[1], k[2])
  \/ Frame

Spec == Init /\ [][Next]_vars

(***************************************************************************)
(* ExocentricCamera on its own: the public methods activate and            *)
(* deactivate called by an arbitrary owner, in any order and with any      *)
(* pose, and the four listeners on the container.                          *)
(***************************************************************************)
\* the poses an owner passes to activate: position and unit direction
Anchors == {<<0, 0, 0>>, <<10000, 10000, 10000>>}

Directions == {<<0, 0, -1000>>, <<-577, -577, -577>>}

ExoActivate(pos, dir) ==
  /\ Budget
  /\ \E r \in {activate(exo, cam, pos, dir)} :
       /\ exo' = r.e
       /\ cam' = r.c
  /\ last' = Event("activate", 0, <<0, 0>>, 0, "")
  /\ nEvents' = nEvents + 1
  /\ UNCHANGED <<menu, bus, shell, panel>>
  /\ UNCHANGED <<ego, isExoMode>>

ExoDeactivate ==
  /\ Budget
  /\ \E r \in {deactivate(exo, cam)} :
       /\ exo' = r.e
       /\ cam' = r.c
  /\ last' = Event("deactivate", 0, <<0, 0>>, 0, "")
  /\ nEvents' = nEvents + 1
  /\ UNCHANGED <<menu, bus, shell, panel>>
  /\ UNCHANGED <<ego, isExoMode>>

ExoMouseDown(b, p) ==
  /\ Budget
  /\ \E r \in {exo_onMouseDown(exo, cam, b, p)} :
       /\ exo' = r.e
       /\ cam' = r.c
  /\ last' = Event("mousedown", b, p, 0, "")
  /\ nEvents' = nEvents + 1
  /\ UNCHANGED <<menu, bus, shell, panel>>
  /\ UNCHANGED <<ego, isExoMode>>

ExoMouseMove(p) ==
  /\ Budget
  /\ \E r \in {exo_onMouseMove(exo, cam, p)} :
       /\ exo' = r.e
       /\ cam' = r.c
  /\ last' = Event("mousemove", 0, p, 0, "")
  /\ nEvents' = nEvents + 1
  /\ UNCHANGED <<menu, bus, shell, panel>>
  /\ UNCHANGED <<ego, isExoMode>>

\* mouseup and mouseleave
ExoMouseUp ==
  /\ Budget
  /\ \E r \in {exo_onMouseUp(exo, cam)} :
       /\ exo' = r.e
       /\ cam' = r.c
  /\ last' = Event("mouseup", 0, <<0, 0>>, 0, "")
  /\ nEvents' = nEvents + 1
  /\ UNCHANGED <<menu, bus, shell, panel>>
  /\ UNCHANGED <<ego, isExoMode>>

ExoWheel(deltaY) ==
  /\ Budget
  /\ \E r \in {exo_onWheel(exo, cam, deltaY)} :
       /\ exo' = r.e
       /\ cam' = r.c
  /\ last' = Event("wheel", 0, <<0, 0>>, deltaY, "")
  /\ nEvents' = nEvents + 1
  /\ UNCHANGED <<menu, bus, shell, panel>>
  /\ UNCHANGED <<ego, isExoMode>>

NextExo ==
  \/ \E pos \in Anchors, dir \in Directions : ExoActivate(pos, dir)
  \/ ExoDeactivate
  \/ \E b \in Buttons, p \in Points : ExoMouseDown(b, p)
  \/ \E p \in Points : ExoMouseMove(p)
  \/ ExoMouseUp
  \/ \E d \in WheelDeltas : ExoWheel(d)

SpecExo == Init /\ [][NextExo]_vars

(***************************************************************************)
(* DishMenu3D on its own: its public methods called by an arbitrary owner  *)
(* in any order, with the camera at rest.  last records the call (its      *)
(* pointer p or its category list cats), what it                           *)
(* returned, the selection callbacks it made and whether it raised; for    *)
(* handleClick also hit, the kind of object clicked, and the run of        *)
(* consecutive clicks on the category toggle: its length (streak) and the  *)
(* category index before its first click (start).                          *)
(***************************************************************************)
MenuCall(op, p, cats, r) ==
  [op |-> op, p |-> p, cats |-> cats, ret |-> r.ret, calls |-> r.calls, raised |-> r.raised,
   hit |-> "", streak |-> 0, start |-> 0]

\* the pointer of a call that takes none
NoPointer == <<"none", 0>>

\* the kind of object a click at p acts on: "toggle", "item" or ""
clickedKind(m, p) ==
  IF ~m.isVisible \/ nearestHit(m, p) = <<>> THEN "" ELSE nearestHit(m, p)[1].h.kind

\* the run of toggle clicks continues while it is shorter than the category count
continuesStreak(m, ev) ==
  ev.op = "handleClick" /\ ev.streak >= 1 /\ ev.streak < Len(m.categories)

ClickCall(m, ev, p, r) ==
  [MenuCall("handleClick", p, <<>>, r) EXCEPT
     !.hit = clickedKind(m, p),
     !.streak = IF clickedKind(m, p) # "toggle" THEN 0
                ELSE IF continuesStreak(m, ev) THEN ev.streak + 1 ELSE 1,
     !.start = IF clickedKind(m, p) # "toggle" THEN 0
               ELSE IF continuesStreak(m, ev) THEN ev.start ELSE m.currentCategoryIndex]

\* a call that returns nothing
Void(m) == Outcome(m, <<>>, <<>>, FALSE)

SetCategories(cs, cb) ==
  /\ \E r \in {setCategories(menu, cs, cb)} :
       /\ menu' = r.m
       /\ last' = MenuCall("setCategories", NoPointer, cs, r)
  /\ UNCHANGED <<ego, exo, cam, isExoMode, nEvents, bus, shell, panel>>

Show ==
  /\ menu' = show(menu)
  /\ last' = MenuCall("show", NoPointer, <<>>, Void(menu))
  /\ UNCHANGED <<ego, exo, cam, isExoMode, nEvents, bus, shell, panel>>

Hide ==
  /\ menu' = hide(menu)
  /\ last' = MenuCall("hide", NoPointer, <<>>, Void(menu))
  /\ UNCHANGED <<ego, exo, cam, isExoMode, nEvents, bus, shell, panel>>

Toggle ==
  /\ menu' = menu_toggle(menu)
  /\ last' = MenuCall("toggle", NoPointer, <<>>, Void(menu))
  /\ UNCHANGED <<ego, exo, cam, isExoMode, nEvents, bus, shell, panel>>

\* getWorldPosition and getWorldDirection refresh the camera's matrix
Update ==
  /\ menu' = menu_update(menu, cam)
  /\ cam' = IF menu.isVisible THEN updateMatrixWorld(cam) ELSE cam
  /\ last' = MenuCall("update", NoPointer, <<>>, Void(menu))
  /\ UNCHANGED <<ego, exo, isExoMode, nEvents, bus, shell, panel>>

CheckInteraction(p) ==
  /\ \E r \in {checkInteraction(menu, p)} :
       /\ menu' = r.m
       /\ last' = MenuCall("checkInteraction", p, <<>>, r)
  /\ UNCHANGED <<ego, exo, cam, isExoMode, nEvents, bus, shell, panel>>

HandleClick(p) ==
  /\ \E r \in {handleClick(menu, p)} :
       /\ menu' = r.m
       /\ last' = ClickCall(menu, last, p, r)
  /\ UNCHANGED <<ego, exo, cam, isExoMode, nEvents, bus, shell, panel>>

NextMenu ==
  \/ \E cs \in CategoryLists, cb \in Callbacks : SetCategories(cs, cb)
  \/ Show
  \/ Hide
  \/ Toggle
  \/ Update
  \/ \E p \in Pointers : CheckInteraction(p)
  \/ \E p \in Pointers : HandleClick(p)

SpecMenu == Init /\ [][NextMenu]_vars

(***************************************************************************)
(* The running program with a dish menu in its scene.  The create button   *)
(* of the chrome dispatches 'toggle-3d-create-menu' and                    *)
(* 'hide-3d-create-menu'; the owner of the menu answers them with toggle() *)
(* and hide().  The frame callback stays that of main().                   *)
(***************************************************************************)
Toggle3DCreateMenu ==
  /\ Budget
  /\ menu' = menu_toggle(menu)
  /\ last' = Event("toggle-3d-create-menu", 0, <<0, 0>>, 0, "")
  /\ nEvents' = nEvents + 1
  /\ UNCHANGED <<ego, exo, cam, isExoMode, bus, shell, panel>>

Hide3DCreateMenu ==
  /\ Budget
  /\ menu' = hide(menu)
  /\ last' = Event("hide-3d-create-menu", 0, <<0, 0>>, 0, "")
  /\ nEvents' = nEvents + 1
  /\ UNCHANGED <<ego, exo, cam, isExoMode, bus, shell, panel>>

NextFrame ==
  \/ Next
  \/ Toggle3DCreateMenu
  \/ Hide3DCreateMenu

SpecFrame == Init /\ [][NextFrame]_vars

(***************************************************************************)
(* EventBus with its methods called by arbitrary owners.  The record of a  *)
(* call also carries what the callers know of their own subscriptions:     *)
(* made[o] are the <<event, callback>> pairs owner o has subscribed since  *)
(* its last unsubscribe, and ended are the pairs whose owner has           *)
(* unsubscribed and that nobody has registered again since.                *)
(***************************************************************************)
Pairs(subs) == {<<subs[i].event, subs[i].callback>> : i \in DOMAIN subs}

NoneMade == [o \in Owners |-> {}]

MadeOf(ev) == IF ev.op = "init" THEN NoneMade ELSE ev.made

EndedOf(ev) == IF ev.op = "init" THEN {} ELSE ev.ended

BusCall(op, event, callback, owner, subs, payload, r, made, ended) ==
  [op |-> op, event |-> event, callback |-> callback, owner |-> owner, subs |-> subs,
   payload |-> payload, calls |-> r.calls, errors |-> r.errors, raised |-> r.raised,
   made |-> made, ended |-> ended]

BusOn(e, cb) ==
  /\ bus' = bus_on(bus, e, cb)
  /\ last' = BusCall("on", e, cb, "", <<>>, "", NothingEmitted,
                     MadeOf(last), EndedOf(last) \ {<<e, cb>>})
  /\ UNCHANGED <<ego, exo, cam, isExoMode, nEvents, menu, shell, panel>>

BusOff(e, cb) ==
  /\ bus' = bus_off(bus, e, cb)
  /\ last' = BusCall("off", e, cb, "", <<>>, "", NothingEmitted, MadeOf(last), EndedOf(last))
  /\ UNCHANGED <<ego, exo, cam, isExoMode, nEvents, menu, shell, panel>>

\* a caller runs a closure that on() returned to it
BusCallUnsub(e, cb) ==
  /\ <<e, cb>> \in bus.unsubs
  /\ bus' = bus_off(bus, e, cb)
  /\ last' = BusCall("unsub", e, cb, "", <<>>, "", NothingEmitted, MadeOf(last), EndedOf(last))
  /\ UNCHANGED <<ego, exo, cam, isExoMode, nEvents, menu, shell, panel>>

BusEmit(e, p) ==
  /\ last' = BusCall("emit", e, "", "", <<>>, p, bus_emit(bus, e, p), MadeOf(last), EndedOf(last))
  /\ UNCHANGED <<ego, exo, cam, isExoMode, nEvents, menu, bus, shell, panel>>

BusSubscribe(o, subs) ==
  /\ bus' = bus_subscribe(bus, o, subs)
  /\ last' = BusCall("subscribe", "", "", o, subs, "", NothingEmitted,
                     [MadeOf(last) EXCEPT ![o] = @ \cup Pairs(subs)],
                     EndedOf(last) \ Pairs(subs))
  /\ UNCHANGED <<ego, exo, cam, isExoMode, nEvents, menu, shell, panel>>

BusUnsubscribe(o) ==
  /\ bus' = bus_unsubscribe(bus, o)
  /\ last' = BusCall("unsubscribe", "", "", o, <<>>, "", NothingEmitted,
                     [MadeOf(last) EXCEPT ![o] = {}],
                     EndedOf(last) \cup MadeOf(last)[o])
  /\ UNCHANGED <<ego, exo, cam, isExoMode, nEvents, menu, shell, panel>>

BusClear ==
  /\ bus' = bus_clear(bus)
  /\ last' = BusCall("clear", "", "", "", <<>>, "", NothingEmitted, MadeOf(last), EndedOf(last))
  /\ UNCHANGED <<ego, exo, cam, isExoMode, nEvents, menu, shell, panel>>

NextBus ==
  \/ \E e \in BusEvents, cb \in BusCallbacks : BusOn(e, cb)
  \/ \E e \in BusEvents, cb \in BusCallbacks : BusOff(e, cb)
  \/ \E e \in BusEvents, cb \in BusCallbacks : BusCallUnsub(e, cb)
  \/ \E e \in BusEvents, p \in Payloads : BusEmit(e, p)
  \/ \E subs \in SubscriptionRecords : BusSubscribe("o1", subs)
  \/ BusUnsubscribe("o1")
  \/ BusClear

SpecBus == Init /\ [][NextBus]_vars

(***************************************************************************)
(* EventBus with the listeners of one event, one of them registered by     *)
(* several registrants: callers of on() and the owners calling subscribe().*)
(***************************************************************************)
NextBusShared ==
  \/ \E cb \in BusCallbacks : BusOn("a", cb)
  \/ \E cb \in BusCallbacks : BusOff("a", cb)
  \/ \E cb \in BusCallbacks : BusCallUnsub("a", cb)
  \/ \E p \in Payloads : BusEmit("a", p)
  \/ \E o \in Owners : BusSubscribe(o, <<Subscription("a", "cb1")>>)
  \/ \E o \in Owners : BusUnsubscribe(o)

SpecBusShared == Init /\ [][NextBusShared]_vars

(***************************************************************************)
(* WebShell with onResize called by arbitrary owners, the closures it      *)
(* returned run at any time, and the container resized by the browser.     *)
(* The record of a call also carries live, the callbacks registered whose  *)
(* unsubscribe function has not been called since.                         *)
(***************************************************************************)
LiveOf(ev) == IF ev.op = "init" THEN {} ELSE ev.live

ShellCall(op, callback, calls, live) ==
  [op |-> op, callback |-> callback, calls |-> calls, live |-> live]

\* onResize(callback): push, then "fire immediately"
ShellOnResize(cb) ==
  /\ Len(shell.resizeCallbacks) < MaxCallbacks
  /\ shell' = shell_onResize(shell, cb)
  /\ last' = ShellCall("onResize", cb, callEach(<<cb>>, shell.metrics), LiveOf(last) \cup {cb})
  /\ UNCHANGED <<ego, exo, cam, isExoMode, nEvents, menu, bus, panel>>

\* the container takes the size m and the ResizeObserver callback runs
ShellResize(m) ==
  /\ shell' = [shell EXCEPT !.metrics = m]
  /\ last' = ShellCall("resize", "", callEach(shell.resizeCallbacks, m), LiveOf(last))
  /\ UNCHANGED <<ego, exo, cam, isExoMode, nEvents, menu, bus, panel>>

\* a caller runs a closure that onResize(cb) returned to it
ShellUnsub(cb) ==
  /\ cb \in shell.unsubs
  /\ shell' = shell_unsubscribe(shell, cb)
  /\ last' = ShellCall("unsub", cb, <<>>, LiveOf(last) \ {cb})
  /\ UNCHANGED <<ego, exo, cam, isExoMode, nEvents, menu, bus, panel>>

NextShell ==
  \/ \E cb \in ShellCallbacks : ShellOnResize(cb)
  \/ \E m \in Metrics : ShellResize(m)
  \/ \E cb \in ShellCallbacks : ShellUnsub(cb)

SpecShell == Init /\ [][NextShell]_vars

(***************************************************************************)
(* The create panel under the user's clicks.                               *)
(***************************************************************************)
NoItem == <<"", Undefined>>

PanelCall(op, item, r) ==
  [op |-> op, item |-> item, dispatched |-> r.dispatched, raised |-> r.raised]

CreateBtnClick ==
  /\ \E r \in {createBtnClick(panel)} :
       /\ panel' = r.pn
       /\ last' = PanelCall("createBtn", NoItem, r)
  /\ UNCHANGED <<ego, exo, cam, isExoMode, nEvents, menu, bus, shell>>

DocumentClick ==
  /\ \E r \in {documentClick(panel)} :
       /\ panel' = r.pn
       /\ last' = PanelCall("document", NoItem, r)
  /\ UNCHANGED <<ego, exo, cam, isExoMode, nEvents, menu, bus, shell>>

ModeToggleClick ==
  /\ \E r \in {modeToggleClick(panel)} :
       /\ panel' = r.pn
       /\ last' = PanelCall("modeToggle", NoItem, r)
  /\ UNCHANGED <<ego, exo, cam, isExoMode, nEvents, menu, bus, shell>>

TabClick(tab) ==
  /\ \E r \in {tabClick(panel, tab)} :
       /\ panel' = r.pn
       /\ last' = PanelCall("tab", NoItem, r)
  /\ UNCHANGED <<ego, exo, cam, isExoMode, nEvents, menu, bus, shell>>

CreateItemClick(item, radial) ==
  /\ \E r \in {createItemClick(panel, item, radial)} :
       /\ panel' = r.pn
       /\ last' = PanelCall("createItem", item, r)
  /\ UNCHANGED <<ego, exo, cam, isExoMode, nEvents, menu, bus, shell>>

NextPanel ==
  \/ CreateBtnClick
  \/ DocumentClick
  \/ ModeToggleClick
  \/ \E tab \in Tabs : TabClick(tab)
  \/ \E item \in CreateItems, radial \in RadialGlobals : CreateItemClick(item, radial)

SpecPanel == Init /\ [][NextPanel]_vars

(***************************************************************************)
(* Vocabulary of the properties.                                           *)
(***************************************************************************)
\* the events of the viewport element: pointer and wheel
ViewportOps == {"mousedown", "mousemove", "mouseup", "mouseleave", "wheel"}

\* the events of the chrome buttons that drive the egocentric controller
ButtonOps == {"view", "nav"}

\* ev is an invocation of toggleExoMode (button click, or E outside an input)
IsToggle(ev) ==
  \/ ev.op = "toggle"
  \/ ev.op = "keydown" /\ ev.name \in {"e", "E"} /\ ev.tag # "INPUT"

\* the OrbitState of the egocentric controller
OrbitState(e) == <<e.theta, e.phi, e.radius, e.target>>

\* the orbit state of the exocentric controller
ExoOrbit(x) == <<x.theta, x.phi, x.radius>>

\* the pose derived from the egocentric OrbitState
EgoPose(e) == VAdd(e.target, toCartesian(e.theta, e.phi, e.radius))

\* anchor + (0,1,0) + toCartesian(exo theta, phi, radius)
ExoPose(x) ==
  VAdd(VAdd(x.userPosition, Vec(0, 1000, 0)), toCartesian(x.theta, x.phi, x.radius))

(***************************************************************************)
(* C1: after any sequence of operations the egocentric polar angle phi     *)
(* lies within [minPhi, maxPhi] = [0.1, PI - 0.1].                         *)
(* Fails: jumpToView('top') stores phi = 0.01 without clamping.            *)
(***************************************************************************)
C1_PhiWithinBounds == ego.phi >= 100 /\ ego.phi <= PI - 100

(***************************************************************************)
(* C2: the egocentric radius always lies within [1, 500], and every dolly  *)
(* (wheel event, zoom-in and zoom-out button) sets it to                   *)
(* clamp(radius + delta, 1, 500), whatever delta is.                       *)
(***************************************************************************)
C2_DollyDelta(ev) ==
  IF ev.op = "wheel" THEN ev.d * 100
  ELSE IF ev.name = "zoom-in" THEN -2000 ELSE 2000

C2_IsDolly(ev) ==
  ev.op = "wheel" \/ (ev.op = "nav" /\ ev.name \in {"zoom-in", "zoom-out"})

C2_RadiusClamped ==
  /\ [](ego.radius >= 1000 /\ ego.radius <= 500000)
  /\ [][C2_IsDolly(last') =>
          ego'.radius = Max(1000, Min(500000, ego.radius + C2_DollyDelta(last')))]_vars

\* a wheel fling that was cut off at maxRadius, and a zoom-in cut off at minRadius
C2_Witness ==
  \/ last.op = "wheel" /\ last.d > 5000 /\ ego.radius = 500000
  \/ last.op = "nav" /\ last.name = "zoom-in" /\ ego.radius = 1000

(***************************************************************************)
(* C3: while exocentric mode is active, no pointer or wheel event on the   *)
(* viewport changes the egocentric OrbitState or its isDragging /          *)
(* isPanning flags.                                                        *)
(* Fails: BryceCamera's listeners stay bound and do not test the mode.     *)
(***************************************************************************)
C3_EgoUntouchedInExoMode ==
  [][(isExoMode /\ last'.op \in ViewportOps) =>
        /\ OrbitState(ego') = OrbitState(ego)
        /\ ego'.isDragging = ego.isDragging
        /\ ego'.isPanning = ego.isPanning]_vars

(***************************************************************************)
(* C4: two consecutive mode toggles with no input in between leave the     *)
(* camera at the pose it had before the first toggle, the pose derived     *)
(* from the egocentric OrbitState.  In the state between the two toggles   *)
(* the pose before the first one is the anchor activate has just captured. *)
(* Fails: deactivate() leaves the camera at the exocentric pose.           *)
(***************************************************************************)
C4_DoubleToggleRestoresPose ==
  [][(IsToggle(last) /\ isExoMode /\ IsToggle(last')) =>
        /\ cam'.position = exo.userPosition
        /\ getWorldDirection(cam') = exo.userDirection
        /\ cam'.position = EgoPose(ego')]_vars

(***************************************************************************)
(* C5: while exocentric mode is active the camera is written only by the   *)
(* exocentric controller: after every pointer, wheel or view / zoom /      *)
(* reset button event the camera position is                               *)
(* anchor + (0,1,0) + toCartesian(exo theta, phi, radius).                 *)
(* Fails: the egocentric handlers run in exocentric mode and write the     *)
(* camera.                                                                 *)
(***************************************************************************)
C5_CameraOwnedByExo ==
  (isExoMode /\ last.op \in ViewportOps \cup ButtonOps) => cam.position = ExoPose(exo)

(***************************************************************************)
(* C6: ExocentricCamera.isActive always equals isExoMode, the ghost is     *)
(* visible exactly in exocentric mode, and the mode changes only by        *)
(* toggleExoMode.                                                          *)
(***************************************************************************)
C6_OneModeActive ==
  /\ [](exo.isActive = isExoMode /\ exo.ghostVisible = isExoMode)
  /\ [][isExoMode' # isExoMode => IsToggle(last')]_vars

\* back in egocentric mode after an exocentric session with input in it
C6_Witness ==
  /\ ~isExoMode /\ ~exo.isActive /\ ~exo.ghostVisible
  /\ IsToggle(last)
  /\ exo.radius # 3000

(***************************************************************************)
(* C7: reset() puts the egocentric OrbitState at theta = PI/4, phi = PI/4, *)
(* radius = 17, target = origin, from every prior state.                   *)
(***************************************************************************)
C7_ResetRestoresDefault ==
  (last.op = "nav" /\ last.name = "reset") =>
     OrbitState(ego) = <<PI \div 4, PI \div 4, 17000, <<0, 0, 0>>>>

\* reset pressed during a pan drag that started from the top view: the
\* matrix still holds the rotation the camera had before the reset
C7_Witness ==
  /\ last.op = "nav" /\ last.name = "reset"
  /\ ego.isPanning /\ ego.lastMouse = <<100, 0>>
  /\ cam.mq = Angles(0, 10)
  /\ OrbitState(ego) = <<PI \div 4, PI \div 4, 17000, <<0, 0, 0>>>>

(***************************************************************************)
(* C8: a drag ends on pointer-up or pointer-leave: after either event, in  *)
(* either mode, BryceCamera.isDragging, BryceCamera.isPanning and          *)
(* ExocentricCamera.isDragging are false, and a pointer-move that follows  *)
(* directly changes no orbit state in either controller.                   *)
(***************************************************************************)
C8_DragEnds ==
  /\ []((last.op \in {"mouseup", "mouseleave"}) =>
          (~ego.isDragging /\ ~ego.isPanning /\ ~exo.isDragging))
  /\ [][(last.op \in {"mouseup", "mouseleave"} /\ last'.op = "mousemove") =>
          (OrbitState(ego') = OrbitState(ego) /\ ExoOrbit(exo') = ExoOrbit(exo))]_vars

\* the pointer left the viewport after an orbit drag of 100 pixels
C8_Witness ==
  /\ last.op = "mouseleave"
  /\ ego.theta = PI \div 4 - 500
  /\ ~ego.isDragging /\ ~ego.isPanning /\ ~exo.isDragging

(***************************************************************************)
(* C9: from every reachable state an orbit drag by (dx, dy) subtracts      *)
(* dx * orbitSpeed from theta, and with dy = 0 it leaves phi and radius    *)
(* unchanged, so that the camera ends at                                   *)
(* target + toCartesian(theta - dx * orbitSpeed, phi, radius) for the phi  *)
(* and radius held before the drag.  (The camera is compared unless the    *)
(* exocentric handler of the same event writes it afterwards.)             *)
(* Fails after jumpToView('top'): phi = 0.01 is below minPhi, and the      *)
(* clamp in orbit moves it to 0.1.                                         *)
(***************************************************************************)
C9_OrbitAzimuthOnly ==
  [][(last'.op = "mousemove" /\ ego.isDragging) =>
        LET dx == last'.p[1] - ego.lastMouse[1]
            dy == last'.p[2] - ego.lastMouse[2]
        IN  /\ ego'.theta = ego.theta - dx * 5
            /\ dy = 0 =>
                 /\ ego'.phi = ego.phi
                 /\ ego'.radius = ego.radius
                 /\ ~(exo.isActive /\ exo.isDragging) =>
                      cam'.position =
                        VAdd(ego.target, toCartesian(ego.theta - dx * 5, ego.phi, ego.radius))]_vars

(***************************************************************************)
(* C10: jumpToView(name) sets (theta, phi) to the preset of that name      *)
(* (top: 0, 0.01; front: 0, PI/2; side: PI/2, PI/2; perspective: PI/4,     *)
(* PI/4) and leaves radius and target unchanged; phi is never exactly 0    *)
(* or PI.                                                                  *)
(***************************************************************************)
C10_Preset(name) ==
  CASE name = "top" -> <<0, 10>>
    [] name = "front" -> <<0, PI \div 2>>
    [] name = "side" -> <<PI \div 2, PI \div 2>>
    [] name = "perspective" -> <<PI \div 4, PI \div 4>>

C10_ViewPresets ==
  /\ [](ego.phi # 0 /\ ego.phi # PI)
  /\ [](last.op = "view" => <<ego.theta, ego.phi>> = C10_Preset(last.name))
  /\ [][last'.op = "view" =>
          (ego'.radius = ego.radius /\ ego'.target = ego.target)]_vars

\* the top view taken after a pan and a dolly, both of which it kept
C10_Witness ==
  /\ last.op = "view" /\ last.name = "top"
  /\ ego.theta = 0 /\ ego.phi = 10
  /\ ego.radius # 17000
  /\ ego.target # <<0, 0, 0>>

(***************************************************************************)
(* C11: every mutating call on the egocentric controller (orbit and pan    *)
(* by a drag, dolly by wheel or zoom button, jumpToView, reset) ends with  *)
(* the derived pose applied: the camera is at                              *)
(* target + toCartesian(theta, phi, radius) of the OrbitState after the    *)
(* call.  (The camera is compared unless the exocentric handler of the     *)
(* same event writes it afterwards.)                                       *)
(***************************************************************************)
C11_EgoCall(e, ev) ==
  \/ ev.op \in {"view", "nav", "wheel"}
  \/ ev.op = "mousemove" /\ (e.isDragging \/ e.isPanning)

C11_ExoWrites(x, ev) ==
  x.isActive /\ (ev.op = "wheel" \/ (ev.op = "mousemove" /\ x.isDragging))

C11_PoseFollowsState ==
  [][(C11_EgoCall(ego, last') /\ ~C11_ExoWrites(exo, last')) =>
        cam'.position = EgoPose(ego')]_vars

\* a pan drag has moved the target and the camera with it
C11_Witness ==
  /\ last.op = "mousemove" /\ ego.isPanning /\ ~ego.isDragging
  /\ ego.target # <<0, 0, 0>>
  /\ cam.position = EgoPose(ego)
  /\ cam.position # EgoPose([ego EXCEPT !.target = <<0, 0, 0>>])

(***************************************************************************)
(* C12: the exocentric controller's phi always lies within [0.2, 0.8 PI]   *)
(* and its radius within [1, 10]; these bounds differ from those of the    *)
(* egocentric controller.                                                  *)
(***************************************************************************)
C12_ExoBounds ==
  /\ exo.phi >= 200 /\ exo.phi <= (PI * 8) \div 10
  /\ exo.radius >= 1000 /\ exo.radius <= 10000
  /\ <<exo_minPhi, exo_maxPhi>> # <<ego_minPhi, ego_maxPhi>>
  /\ <<exo_minRadius, exo_maxRadius>> # <<ego_minRadius, ego_maxRadius>>

\* an exocentric drag and a wheel fling that were both cut off
C12_Witness ==
  /\ isExoMode
  /\ exo.phi \in {200, (PI * 8) \div 10}
  /\ exo.radius = 10000

(***************************************************************************)
(* C13: activate(pos, dir), from any prior exocentric state, stores pos    *)
(* and dir as the anchor, places the ghost at (pos.x, 0, pos.z), sets      *)
(* theta = atan2(dir.x, dir.z) + PI, phi = PI/3 and radius = 3, shows the  *)
(* ghost and makes the controller Active.  pos and dir are the camera's    *)
(* position and world direction at the toggle.                             *)
(***************************************************************************)
C13_ActivateInitialises ==
  [][(IsToggle(last') /\ ~isExoMode) =>
        /\ exo'.userPosition = cam.position
        /\ exo'.userDirection = getWorldDirection(cam)
        /\ exo'.ghostPosition = <<cam.position[1], 0, cam.position[3]>>
        /\ exo'.theta =
             Atan2(getWorldDirection(cam)[1], getWorldDirection(cam)[3]) + PI
        /\ exo'.phi = PI \div 3
        /\ exo'.radius = 3000
        /\ exo'.ghostVisible
        /\ exo'.isActive]_vars

\* a second session: the wheel fling that left the egocentric radius at its
\* maximum happened in exocentric mode, because the anchor is still near the
\* first one; it had left the exocentric radius at 10
C13_Witness ==
  /\ isExoMode /\ IsToggle(last)
  /\ ego.radius = 500000
  /\ exo.userPosition[2] < 20000
  /\ exo.userPosition # EgoPose(egoInit)
  /\ exo.radius = 3000 /\ exo.phi = PI \div 3

(***************************************************************************)
(* C14: deactivate() hides the ghost and makes the exocentric controller   *)
(* Inactive and changes nothing else: the camera, the egocentric           *)
(* controller, the anchor, the exocentric orbit state and the rest of the  *)
(* exocentric controller are as before the call.                           *)
(***************************************************************************)
C14_DeactivateFrame ==
  [][(IsToggle(last') /\ isExoMode) =>
        /\ ~exo'.ghostVisible /\ ~exo'.isActive
        /\ cam' = cam
        /\ ego' = ego
        /\ exo' = [exo EXCEPT !.ghostVisible = FALSE, !.isActive = FALSE]]_vars

\* deactivated in the middle of an exocentric drag
C14_Witness ==
  /\ ~isExoMode /\ IsToggle(last)
  /\ exo.isDragging
  /\ ~exo.ghostVisible /\ ~exo.isActive
  /\ cam.position = ExoPose(exo)

(***************************************************************************)
(* C16: the exocentric anchor is fixed for a session: activate captures    *)
(* the camera's position and direction, and until the next activate no     *)
(* pointer or wheel event (with any button) and no deactivate changes      *)
(* what getUserPosition and getUserDirection return.                       *)
(***************************************************************************)
C16_AnchorFixed ==
  /\ [][(IsToggle(last') /\ ~isExoMode) =>
          /\ getUserPosition(exo') = cam.position
          /\ getUserDirection(exo') = getWorldDirection(cam)]_vars
  /\ [][~(IsToggle(last') /\ ~isExoMode) =>
          /\ getUserPosition(exo') = getUserPosition(exo)
          /\ getUserDirection(exo') = getUserDirection(exo)]_vars

\* a right-button drag in exocentric mode: the anchor is still the pose
\* captured at the toggle
C16_Witness ==
  /\ isExoMode /\ last.op = "mousemove" /\ ego.isPanning
  /\ ego.target # <<0, 0, 0>>
  /\ getUserPosition(exo) = EgoPose(egoInit)
  /\ getUserPosition(exo) # cam.position

(***************************************************************************)
(* C15: switching to the mode that is already active is a no-op: activate  *)
(* on an Active controller and deactivate on an Inactive one change no     *)
(* state of the controller (anchor, orbit state, ghost) and not the        *)
(* camera.                                                                 *)
(* Fails: activate has no guard; on an Active controller it captures the   *)
(* new anchor, resets the orbit state and moves the camera.                *)
(***************************************************************************)
C15_RepeatedSwitchIsNoOp ==
  [][((last'.op = "activate" /\ exo.isActive) \/
      (last'.op = "deactivate" /\ ~exo.isActive)) =>
        (exo' = exo /\ cam' = cam)]_vars

(***************************************************************************)
(* Vocabulary of the dish menu properties.                                 *)
(***************************************************************************)
\* the items of the category that is current, none when there is no category
CurrentItems(m) ==
  IF m.currentCategoryIndex \in 0..(Len(m.categories) - 1)
  THEN m.categories[m.currentCategoryIndex + 1].items
  ELSE <<>>

\* the call was a click that hit the category toggle
IsToggleClick(ev) == ev.op = "handleClick" /\ ev.hit = "toggle"

\* the item meshes are those of the current category, one to one and in order
MeshesMatch(m) ==
  /\ Len(m.items) = Len(CurrentItems(m))
  /\ \A i \in DOMAIN m.items :
       /\ m.items[i].menuItemId = CurrentItems(m)[i].id
       /\ m.items[i].url = CurrentItems(m)[i].url

\* some item label is showing or some item or toggle is emphasized
SomethingHovered(m) ==
  \/ \E i \in DOMAIN m.labels : m.labels[i].visible
  \/ \E i \in DOMAIN m.items : m.items[i].glow # ItemGlow
  \/ \E i \in DOMAIN m.centerToggle : m.centerToggle[i].glow # ToggleGlow
  \/ \E i \in DOMAIN m.hoveredItem : m.hoveredItem[i].gen = 0

(***************************************************************************)
(* C17: currentCategoryIndex is a valid index into categories whenever     *)
(* categories is non-empty, and it is never NaN: the category is never     *)
(* advanced modulo an empty category list.                                 *)
(***************************************************************************)
C17_IndexValid ==
  /\ menu.currentCategoryIndex # NaN
  /\ menu.categories # <<>> =>
       menu.currentCategoryIndex \in 0..(Len(menu.categories) - 1)

\* the index advanced to the last of three categories
C17_Witness ==
  /\ IsToggleClick(last)
  /\ Len(menu.categories) = 3
  /\ menu.currentCategoryIndex = 2

(***************************************************************************)
(* C18: a click that hits the category toggle advances                     *)
(* currentCategoryIndex by one modulo the category count, rebuilds the     *)
(* items for the new category, returns true and leaves the widget          *)
(* visible; k consecutive toggle clicks lead from index s to               *)
(* (s + k) mod N, so that N of them return to s.                           *)
(***************************************************************************)
C18_ToggleCycles ==
  /\ [][IsToggleClick(last') =>
          /\ menu'.currentCategoryIndex =
               (menu.currentCategoryIndex + 1) % Len(menu.categories)
          /\ menu'.categories = menu.categories
          /\ MeshesMatch(menu')
          /\ menu'.isVisible /\ menu'.groupVisible
          /\ last'.ret = True /\ ~last'.raised]_vars
  /\ [](IsToggleClick(last) =>
          /\ Len(menu.categories) >= 2
          /\ menu.currentCategoryIndex =
               (last.start + last.streak) % Len(menu.categories)
          /\ last.streak = Len(menu.categories) =>
               menu.currentCategoryIndex = last.start)

\* three toggle clicks on three categories, started at the second one
C18_Witness ==
  /\ IsToggleClick(last)
  /\ Len(menu.categories) = 3
  /\ last.streak = 3 /\ last.start = 1
  /\ menu.currentCategoryIndex = 1
  /\ menu.isVisible

(***************************************************************************)
(* C19: setCategories resets currentCategoryIndex to 0, and after it and   *)
(* after every later toggle click the item meshes are those of             *)
(* categories[currentCategoryIndex], one to one and in order, each with    *)
(* one label that starts hidden, and the group holds the dish base and     *)
(* the objects of this build only.                                         *)
(***************************************************************************)
C19_BuildHandles(m) ==
  {dishBase} \cup Handles(m.items) \cup Handles(m.labels) \cup
  Handles(m.centerToggle) \cup Handles(m.centerLabel)

C19_FreshBuild(m) ==
  /\ MeshesMatch(m)
  /\ Len(m.labels) = Len(m.items)
  /\ \A i \in DOMAIN m.labels :
       /\ m.labels[i].text = CurrentItems(m)[i].label
       /\ ~m.labels[i].visible
       /\ m.labels[i].h.slot = m.items[i].h.slot
  /\ \A i \in DOMAIN m.items : m.items[i].glow = ItemGlow
  /\ {m.children[i] : i \in DOMAIN m.children} = C19_BuildHandles(m)
  /\ Len(m.children) = Cardinality(C19_BuildHandles(m))
  /\ \A i \in DOMAIN m.children : m.children[i].gen = 0

C19_RebuildFromScratch ==
  /\ last.op = "setCategories" =>
       (menu.currentCategoryIndex = 0 /\ menu.categories = last.cats /\ C19_FreshBuild(menu))
  /\ IsToggleClick(last) => C19_FreshBuild(menu)

\* a toggle click from the two-item category to the one-item category,
\* while an item of the old build was hovered
C19_Witness ==
  /\ IsToggleClick(last)
  /\ menu.currentCategoryIndex = 1
  /\ Len(menu.items) = 1 /\ menu.items[1].menuItemId = "b1"
  /\ Len(menu.children) = 5
  /\ menu.hoveredItem # <<>> /\ menu.hoveredItem[1].kind = "item"

(***************************************************************************)
(* C20: with an empty category list, in either visibility state,           *)
(* setCategories([], cb) and the update, checkInteraction and handleClick  *)
(* calls that follow do not raise; checkInteraction returns null,          *)
(* handleClick returns false, no selection callback is made, and no        *)
(* element of the widget is hovered: nothing is built, no label shows,     *)
(* and hoveredItem is not an element of the widget.                        *)
(***************************************************************************)
C20_EmptyIsInert ==
  (menu.categories = <<>> /\
   last.op \in {"setCategories", "update", "checkInteraction", "handleClick"}) =>
     /\ ~last.raised
     /\ last.calls = <<>>
     /\ last.op = "checkInteraction" => last.ret = <<>>
     /\ last.op = "handleClick" => last.ret = False
     /\ menu.items = <<>> /\ menu.labels = <<>> /\ menu.centerToggle = <<>>
     /\ ~SomethingHovered(menu)

\* a click at the first item slot of a visible widget that was emptied by
\* setCategories([], cb) while one of its items was hovered
C20_Witness ==
  /\ menu.categories = <<>> /\ menu.onSelect # <<>>
  /\ menu.isVisible
  /\ last.op = "handleClick" /\ last.p = <<"item", 1>> /\ last.ret = False
  /\ menu.hoveredItem # <<>>

(***************************************************************************)
(* C21: while the dish menu is hidden, update, checkInteraction and        *)
(* handleClick change nothing of the widget (nor of the camera), make no   *)
(* selection callback and return null / false; show, hide and toggle       *)
(* change only the visibility (isVisible and group.visible), and toggle    *)
(* inverts it, so that two toggles restore it.                             *)
(***************************************************************************)
C21_Visibility(m, v) == [m EXCEPT !.isVisible = v, !.groupVisible = v]

C21_HiddenIsInert ==
  /\ [][(~menu.isVisible /\ last'.op \in {"update", "checkInteraction", "handleClick"}) =>
          /\ menu' = menu
          /\ cam' = cam
          /\ last'.calls = <<>> /\ ~last'.raised
          /\ last'.op = "checkInteraction" => last'.ret = <<>>
          /\ last'.op = "handleClick" => last'.ret = False]_vars
  /\ [][last'.op = "show" => menu' = C21_Visibility(menu, TRUE)]_vars
  /\ [][last'.op = "hide" => menu' = C21_Visibility(menu, FALSE)]_vars
  /\ [][last'.op = "toggle" => menu' = C21_Visibility(menu, ~menu.isVisible)]_vars
  /\ [](menu.groupVisible = menu.isVisible)

\* a click aimed at the first item of a hidden widget, whose hover is still set
C21_Witness ==
  /\ ~menu.isVisible
  /\ last.op = "handleClick" /\ last.p = <<"item", 1>> /\ last.ret = False
  /\ Len(menu.items) = 2
  /\ menu.hoveredItem = <<Handle("item", 1)>>
  /\ menu.labels[1].visible

(***************************************************************************)
(* C22: after every checkInteraction call on a visible dish menu at most   *)
(* one item label is visible and at most one element is emphasized, and    *)
(* they are those of the element the call hit; after a call that hits      *)
(* nothing no label is visible and no element is emphasized.               *)
(***************************************************************************)
\* the slots whose label shows, and the handles of the emphasized elements
C22_Labelled(m) == {i \in DOMAIN m.labels : m.labels[i].visible}

C22_Emphasized(m) ==
  {m.items[i].h : i \in {j \in DOMAIN m.items : m.items[j].glow # ItemGlow}} \cup
  {m.centerToggle[i].h : i \in {j \in DOMAIN m.centerToggle : m.centerToggle[j].glow # ToggleGlow}}

C22_OneHover ==
  (last.op = "checkInteraction" /\ menu.isVisible) =>
     /\ Cardinality(C22_Labelled(menu)) <= 1
     /\ Cardinality(C22_Emphasized(menu)) <= 1
     /\ C22_Emphasized(menu) \subseteq Handles(nearestHit(menu, last.p))
     /\ \A i \in C22_Labelled(menu) : <<menu.items[i]>> = nearestHit(menu, last.p)
     /\ nearestHit(menu, last.p) = <<>> => (C22_Labelled(menu) = {} /\ C22_Emphasized(menu) = {})

\* the ray is on the second item: its label shows, the first one's does not
C22_Witness ==
  /\ last.op = "checkInteraction" /\ menu.isVisible
  /\ last.p = <<"item", 2>> /\ last.ret = <<"a2">>
  /\ C22_Labelled(menu) = {2}
  /\ C22_Emphasized(menu) = {Handle("item", 2)}

(***************************************************************************)
(* C23: on a visible dish menu handleClick returns true exactly when the   *)
(* nearest hit is the category toggle or an item; on an item hit it        *)
(* invokes the registered selection callback exactly once with the item's  *)
(* id and url (or undefined) and the widget is hidden afterwards; on a     *)
(* miss it returns false, invokes no callback and leaves the visibility    *)
(* and the category index unchanged.                                       *)
(***************************************************************************)
\* what a click at pointer p on the visible menu m owes: m2 is the menu and
\* ev the recorded call afterwards
C23_ItemClick(m, p, m2, ev) ==
  /\ ev.calls = <<<<m.onSelect[1], CurrentItems(m)[p[2]].id, CurrentItems(m)[p[2]].url>>>>
  /\ ~m2.isVisible

C23_Miss(m, m2, ev) ==
  /\ ev.ret = False /\ ev.calls = <<>>
  /\ m2.isVisible = m.isVisible
  /\ m2.currentCategoryIndex = m.currentCategoryIndex

C23_ClickContract ==
  [][(menu.isVisible /\ last'.op = "handleClick") =>
       /\ last'.ret = True <=> last'.hit \in {"toggle", "item"}
       /\ last'.hit = "item" => C23_ItemClick(menu, last'.p, menu', last')
       /\ last'.hit = "" => C23_Miss(menu, menu', last')]_vars

(***************************************************************************)
(* C24: checkInteraction on a visible dish menu returns the hit item's id  *)
(* when the nearest hit is an item, the sentinel '__toggle__' when it is   *)
(* the category toggle and null when nothing is hit, and the three         *)
(* outcomes are distinguishable for every item id a caller may supply, the *)
(* empty string and an id equal to the sentinel included.                  *)
(***************************************************************************)
\* the kind of element under the pointer of the last call
C24_HitKind(m, p) ==
  IF nearestHit(m, p) = <<>> THEN "" ELSE nearestHit(m, p)[1].h.kind

C24_HoverResult ==
  (last.op = "checkInteraction" /\ menu.isVisible) =>
     /\ C24_HitKind(menu, last.p) = "item" => last.ret = <<CurrentItems(menu)[last.p[2]].id>>
     /\ C24_HitKind(menu, last.p) = "toggle" => last.ret = <<"__toggle__">>
     /\ C24_HitKind(menu, last.p) = "" => last.ret = <<>>
     /\ last.ret = <<>> => C24_HitKind(menu, last.p) = ""
     /\ last.ret = <<"__toggle__">> => C24_HitKind(menu, last.p) = "toggle"

(***************************************************************************)
(* C25: while visible, update() places the dish at cameraPosition +        *)
(* forwardOffset * cameraForward + verticalOffset * cameraUp, with forward *)
(* offset 1.5 and vertical offset -0.8 along the camera's own up vector,   *)
(* for every camera orientation, pitched views included.                   *)
(***************************************************************************)
C25_BodyLocked(c) ==
  VAdd(VAdd(c.position, VScaled(getWorldDirection(c), menu_forward)),
       VScaled(BasisUp(c.q), menu_offsetY))

C25_DishFollowsCameraUp ==
  (last.op = "update" /\ menu.isVisible) => menu.position = C25_BodyLocked(cam)

C27_UnsubscribeRemovesAll ==
  last.op = "emit" =>
    \A i \in DOMAIN last.calls : <<last.event, last.calls[i][1]>> \notin last.ended

(***************************************************************************)
(* C28: EventBus.on(event, cb) returns an unsubscribe function:            *)
(* emit(event, p) invokes cb with p for as long as the subscription        *)
(* stands, and after the returned function (or off) is called cb is no     *)
(* longer invoked for that event; calling the unsubscribe function again   *)
(* changes nothing, and listeners of other events are unaffected.          *)
(***************************************************************************)
\* the callbacks emit(event, payload) would invoke on bus b, with that payload
C28_Invoked(ev) == {ev.calls[i][1] : i \in {j \in DOMAIN ev.calls : ev.calls[j][2] = ev.payload}}

C28_Registered(b, event) == {cb \in BusCallbacks : SetHas(b.listeners[event], cb)}

C28_OtherEventsKept(b, b2, event) ==
  \A e \in BusEvents \ {event} : b2.listeners[e] = b.listeners[e]

C28_Subscription ==
  /\ [][last'.op = "on" =>
          /\ last'.callback \in C28_Registered(bus', last'.event)
          /\ <<last'.event, last'.callback>> \in bus'.unsubs
          /\ C28_OtherEventsKept(bus, bus', last'.event)]_vars
  /\ [][last'.op \in {"off", "unsub"} =>
          /\ last'.callback \notin C28_Registered(bus', last'.event)
          /\ C28_OtherEventsKept(bus, bus', last'.event)]_vars
  /\ [][(last'.op = "unsub" /\ last'.callback \notin C28_Registered(bus, last'.event)) =>
          bus' = bus]_vars
  /\ [][last'.op = "emit" =>
          /\ C28_Invoked(last') = C28_Registered(bus, last'.event)
          /\ Len(last'.calls) = Cardinality(C28_Registered(bus, last'.event))]_vars
  /\ [][\A e \in BusEvents :
          \A cb \in C28_Registered(bus, e) \ C28_Registered(bus', e) :
            \/ last'.op \in {"unsubscribe", "clear"}
            \/ last'.op \in {"off", "unsub"} /\ last'.event = e /\ last'.callback = cb]_vars

\* the closure of on("a", cb1) has run while cb1 also listens to "b"
C28_Witness ==
  /\ last.op = "unsub" /\ last.event = "a" /\ last.callback = "cb1"
  /\ bus.listeners["a"] = <<"bad">>
  /\ bus.listeners["b"] = <<"cb1">>

(***************************************************************************)
(* C29: EventBus.emit isolates listener failures: when one listener of an  *)
(* event throws, every other listener registered for that event is still   *)
(* invoked with the payload, and emit itself does not throw.               *)
(***************************************************************************)
C29_EmitIsolates ==
  last.op = "emit" =>
    /\ ~last.raised
    /\ \A i \in DOMAIN bus.listeners[last.event] :
         \E j \in DOMAIN last.calls : last.calls[j] = <<bus.listeners[last.event][i], last.payload>>

\* the listener that throws is called first, the other one after it
C29_Witness ==
  /\ last.op = "emit" /\ last.event = "a" /\ last.payload = "p2"
  /\ bus.listeners["a"] = <<"bad", "cb1">>
  /\ last.calls = <<<<"bad", "p2">>, <<"cb1", "p2">>>>
  /\ last.errors = 1 /\ ~last.raised

(***************************************************************************)
(* C30: each navigation operation of the egocentric controller changes     *)
(* only its own components of OrbitState: orbit only theta and phi, dolly  *)
(* only radius, pan only target and jumpToView only theta and phi; none of *)
(* them changes the isDragging and isPanning flags.                        *)
(***************************************************************************)
C30_FlagsKept(e, e2) == e2.isDragging = e.isDragging /\ e2.isPanning = e.isPanning

\* the events whose handler calls dolly: the wheel and the two zoom buttons
C30_IsDolly(ev) ==
  ev.op = "wheel" \/ (ev.op = "nav" /\ ev.name \in {"zoom-in", "zoom-out"})

C30_OwnComponents ==
  /\ [][(last'.op = "mousemove" /\ ego.isDragging) =>
          /\ ego'.radius = ego.radius /\ ego'.target = ego.target
          /\ C30_FlagsKept(ego, ego')]_vars
  /\ [][(last'.op = "mousemove" /\ ~ego.isDragging /\ ego.isPanning) =>
          /\ ego'.theta = ego.theta /\ ego'.phi = ego.phi /\ ego'.radius = ego.radius
          /\ C30_FlagsKept(ego, ego')]_vars
  /\ [][C30_IsDolly(last') =>
          /\ ego'.theta = ego.theta /\ ego'.phi = ego.phi /\ ego'.target = ego.target
          /\ C30_FlagsKept(ego, ego')]_vars
  /\ [][last'.op = "view" =>
          /\ ego'.radius = ego.radius /\ ego'.target = ego.target
          /\ C30_FlagsKept(ego, ego')]_vars

\* a preset view chosen during a pan drag that has moved the target
C30_Witness ==
  /\ last.op = "view" /\ last.name = "side"
  /\ ego.theta = viewTheta("side") /\ ego.phi = viewPhi("side")
  /\ ego.target # defaultState.target /\ ego.radius = defaultState.radius
  /\ ego.isPanning

(***************************************************************************)
(* C31: the egocentric controller is in exactly one of the states Idle,    *)
(* Orbiting and Panning: isDragging and isPanning are never both true, for *)
(* any sequence of pointer-down events with different buttons, nav-ball    *)
(* presses, pointer-up and pointer-leave events.                           *)
(***************************************************************************)
C31_OneDragState == ~(ego.isDragging /\ ego.isPanning)

(***************************************************************************)
(* C32: while the exocentric controller is inactive no pointer or wheel    *)
(* event changes its orbit state (theta, phi, radius) or writes the shared *)
(* camera through it, also when it was deactivated in the middle of a drag *)
(* and isDragging is still true.                                           *)
(***************************************************************************)
C32_InactiveIgnoresInput ==
  [][(~exo.isActive /\ last'.op \in ViewportOps) =>
       /\ ExoOrbit(exo') = ExoOrbit(exo)
       /\ cam' = cam]_vars

\* deactivated during a drag, then the pointer moves
C32_Witness ==
  /\ last.op = "mousemove" /\ ~exo.isActive /\ exo.isDragging
  /\ last.p # exo.lastMouse

(***************************************************************************)
(* C33: the dish menu's hoveredItem is always either none or one of the    *)
(* currently built interactive elements, a member of items or the current  *)
(* centerToggle; it never refers to an element destroyed by a rebuild      *)
(* (setCategories or a click on the category toggle).                      *)
(***************************************************************************)
C33_HoverIsBuilt ==
  \/ menu.hoveredItem = <<>>
  \/ menu.hoveredItem[1] \in Handles(menu.items) \cup Handles(menu.centerToggle)

(***************************************************************************)
(* C34: whenever the dish menu becomes visible through show() or toggle(), *)
(* no item label is visible and no element is emphasized until a           *)
(* checkInteraction call hits an element; in particular the hover shown    *)
(* when an item was clicked, which hides the widget, does not reappear on  *)
(* the next show().                                                        *)
(***************************************************************************)
\* no label shows and nothing is emphasized
C34_NoHoverShown(m) ==
  /\ \A i \in DOMAIN m.labels : ~m.labels[i].visible
  /\ \A i \in DOMAIN m.items : m.items[i].glow = ItemGlow
  /\ \A i \in DOMAIN m.centerToggle : m.centerToggle[i].glow = ToggleGlow

C34_ShownWithoutHover ==
  /\ [][(~menu.isVisible /\ menu'.isVisible /\ last'.op \in {"show", "toggle"}) =>
          C34_NoHoverShown(menu')]_vars
  /\ [][(menu.isVisible /\ menu'.isVisible /\ C34_NoHoverShown(menu)
          /\ ~(last'.op = "checkInteraction" /\ last'.ret # <<>>)) =>
          C34_NoHoverShown(menu')]_vars

(***************************************************************************)
(* C35: the category toggle control and its category label exist exactly   *)
(* when the dish menu holds more than one category, so with zero or one    *)
(* category no click can change currentCategoryIndex and checkInteraction  *)
(* never returns '__toggle__'.                                             *)
(***************************************************************************)
C35_ToggleOnlyWithChoice ==
  /\ [](menu.centerToggle # <<>> <=> Len(menu.categories) > 1)
  /\ [](menu.centerLabel # <<>> <=> Len(menu.categories) > 1)
  /\ [][(Len(menu.categories) <= 1 /\ last'.op = "handleClick") =>
          menu'.currentCategoryIndex = menu.currentCategoryIndex]_vars
  /\ []((last.op = "checkInteraction" /\ Len(menu.categories) <= 1) =>
          last.ret # <<"__toggle__">>)

(***************************************************************************)
(* C36: registering the same callback more than once for the same event on *)
(* the EventBus, through on and/or subscribe, by one or several owners,    *)
(* results in one invocation per emit, and a single off or unsubscribe of  *)
(* it removes it for every registrant.                                     *)
(***************************************************************************)
C36_SharedRegistration ==
  /\ [](last.op = "emit" =>
          \A i, j \in DOMAIN last.calls : last.calls[i] = last.calls[j] => i = j)
  /\ [][last'.op \in {"off", "unsub"} =>
          ~SetHas(bus'.listeners[last'.event], last'.callback)]_vars
  /\ [][(last'.op = "unsubscribe" /\ bus.subscriptions[last'.owner] # <<>>) =>
          \A i \in DOMAIN bus.subscriptions[last'.owner][1] :
             ~SetHas(bus'.listeners[bus.subscriptions[last'.owner][1][i].event],
                     bus.subscriptions[last'.owner][1][i].callback)]_vars

\* o1 has unsubscribed the callback that o2 and a caller of on() registered too
C36_Witness ==
  /\ last.op = "unsubscribe" /\ last.owner = "o1"
  /\ <<"a", "cb1">> \in last.ended
  /\ <<"a", "cb1">> \in last.made["o2"] /\ bus.subscriptions["o2"] # <<>>
  /\ <<"a", "cb1">> \in bus.unsubs
  /\ bus.listeners["a"] = <<>>

(***************************************************************************)
(* C37: WebShell.onResize(cb) invokes cb once immediately with the current *)
(* metrics and again on every later container resize, until the returned   *)
(* unsubscribe function is called; after that cb is never invoked again    *)
(* and other registered callbacks keep being invoked.                      *)
(***************************************************************************)
C37_Invoked(ev) == {ev.calls[i][1] : i \in DOMAIN ev.calls}

C37_ResizeSubscription ==
  /\ [][last'.op = "onResize" => last'.calls = <<<<last'.callback, shell.metrics>>>>]_vars
  /\ [](last.op = "resize" =>
          /\ C37_Invoked(last) = last.live
          /\ \A i \in DOMAIN last.calls : last.calls[i][2] = shell.metrics)

(***************************************************************************)
(* C38: in the create panel, clicking a create item always dispatches one  *)
(* 'create-object' event with the item's type and url and completes        *)
(* without raising; in dropdown mode (is3DMode false) the dropdown is      *)
(* closed afterwards, and in 3D mode the dropdown state is left unchanged. *)
(***************************************************************************)
C38_CreateItemClick ==
  [][last'.op = "createItem" =>
       /\ last'.dispatched = <<<<"create-object", last'.item>>>>
       /\ ~last'.raised
       /\ ~panel.is3DMode => ~panel'.dropdownOpen
       /\ panel.is3DMode => panel'.dropdownOpen = panel.dropdownOpen]_vars

====
